---- MODULE Spec2Model ----
(***************************************************************************)
(* Verification model of the orchestration core:                           *)
(*   - the workflow scheduler runWorkflow (core/workflow/workflow.ts),     *)
(*   - the task registry startTask / stopTask / cancelAllTasks.            *)
(* Every scheduler action is one run-to-completion slice of the single     *)
(* JavaScript thread: from one await to the next.                          *)
(***************************************************************************)
EXTENDS Integers, Sequences, FiniteSets, Bags, TLC

(***************************************************************************)
(* Bounds of the checked instances.                                        *)
(***************************************************************************)
NumSteps == 3
MaxEdges == 2
MaxTasks == 4
MaxCalls == 2
MaxTail == 1
MaxResolved == 2
MaxOperations == 2
MaxDownloads == 5
MaxSkip == 2
MaxCards == 3
MaxFailures == 2
WaitRounds == 2
MaxTicks == 6
MaxTimeout == 2
MaxDuration == 2
MaxLimit == 2
NumDownloadSteps == 2
MaxVideos == 2
MaxExisting == 1
FeedFiles == 3
MaxRuns == 2
MaxPipelineSteps == 2

\* runs of runWorkflow compared with one another
MaxPermRuns == 2

\* files in the download directory at the start, the ceiling of the seen-names set,
\* calls of clickDownload
MaxInitialFiles == 2
MaxSeen == 2
MaxClicks == 2

\* session steps running at once, prompts of a session
NumSkipSteps == 2
MaxPrompts == 1

\* slots of a ChromePool, calls of ensureChrome
MaxConcurrent == 2
MaxPoolCalls == 3

\* calls of ensureCloneSeededFromProfile for one clone directory
MaxSeedings == 2

(***************************************************************************)
(* Step graphs: the inputs of runWorkflow.                                 *)
(***************************************************************************)
IdNames == <<"s1", "s2", "s3", "s4", "s5", "s6">>

\* an identifier that no step of a generated list carries
GhostId == "ghost"

\* identifiers a dependsOn of a list of n steps may name
DepTargets(n) == {IdNames[i] : i \in 1..n} \cup {GhostId}

\* the dependsOn of the first k steps of a list of n, with at most budget entries in all
RECURSIVE DepLists(_, _, _)
DepLists(n, k, budget) ==
  IF k = 0 THEN {<< >>}
  ELSE UNION {{Append(ds, d) : ds \in DepLists(n, k - 1, budget - Cardinality(d))} :
                d \in {x \in SUBSET DepTargets(n) : Cardinality(x) <= budget}}

\* WorkflowStep: id, enabled, dependsOn (label and sessionId do not steer the scheduler)
MkSteps(n, deps, en) ==
  [i \in 1..n |-> [id |-> IdNames[i], enabled |-> i \in en, dependsOn |-> deps[i]]]

\* the generated step lists: every list of at most NumSteps steps with at most MaxEdges
\* dependsOn entries in all, each step enabled or not
IsGenGraph(g) ==
  \E n \in 0..NumSteps :
    \E deps \in DepLists(n, n, MaxEdges) :
      \E en \in SUBSET (1..n) : g = MkSteps(n, deps, en)

\* the scenario of the specification: open, downloadA, downloadB, merge
ExampleSteps ==
  << [id |-> "open",      enabled |-> TRUE, dependsOn |-> {}],
     [id |-> "downloadA", enabled |-> TRUE, dependsOn |-> {"open"}],
     [id |-> "downloadB", enabled |-> TRUE, dependsOn |-> {"open"}],
     [id |-> "merge",     enabled |-> TRUE, dependsOn |-> {"downloadA", "downloadB"}] >>

\* what a step body does when called: return a promise, or throw before returning one
Behaviours == {"promise", "throw"}

\* how the promise of a body settles
Settlements == {"ok", "reject"}

VARIABLES
  steps,            \* the step list handed to runWorkflow
  cancelled,        \* current value of options.shouldCancel()
  pc,               \* position of runWorkflow: start, loop, waitRace (line 346), waitAll (line 259), done
  exitBy,           \* which exit of the while loop was taken
  statusById,       \* Map<string, WorkflowRunStatus>
  results,          \* WorkflowRunResult[], as the bag of the records pushed (order left out)
  pendingSteps,     \* Set<WorkflowStep>, as positions in steps
  runningPromises,  \* keys of Map<string, Promise<void>>
  settledPromises,  \* ids whose wrapper promise has resolved
  awaited,          \* ids whose promises the current await was given
  outcome,          \* per id: none (not called), promise (in flight), ok, reject, throw
  runCount          \* number of calls of step.run per id

wfVars == <<steps, cancelled, pc, exitBy, statusById, results, pendingSteps,
            runningPromises, settledPromises, awaited, outcome, runCount>>

\* state of the task registry
VARIABLES
  registry,         \* Map<string, ActiveTask>: session id -> [type, controller]
  controllers,      \* every AbortController created so far: [sessionId, aborted]
  returnedSignal,   \* controller whose signal the last startTask returned (0: none)
  lastCall          \* the registry function that returned last

trVars == <<registry, controllers, returnedSignal, lastCall>>

\* the task-running operations (runDownloads, runPromptsAdapter, runGenericPromptLoop)
VARIABLES
  operations        \* every call made so far: [kind, sessionId, signal, pc, exit]

opVars == <<operations>>

\* the Chrome session manager (chrome/manager.ts) and its callers
VARIABLES
  sessionCdpPort,   \* session.cdpPort of each session (NullPort: null)
  viaPipeline,      \* sessions are run by the pipeline (after assignRuntimePorts) or one by one
  activeSessions,   \* Map<SessionID, { port, wsEndpoint }>
  procs,            \* Chrome processes spawned so far: [port, state]; the index is the endpoint
  calls             \* calls of getOrLaunchChromeForProfile: [sessionId, port, pc, ws, probed, spawned, exit]

chVars == <<sessionCdpPort, viaPipeline, activeSessions, procs, calls>>

\* profile directories handed out by resolveProfileLaunchTarget
VARIABLES
  resolved          \* the calls made so far: [profileName, sessionId, userDataDir]

pfVars == <<resolved>>

\* the download loop (core/download/downloadFlow.ts runDownloadLoop)
VARIABLES
  options,          \* [maxDownloads, skipCount]
  page,             \* the feed: [cards, index of the open card]
  dlPc,             \* position of runDownloadLoop
  dlState,          \* let state: DownloadState
  savedFiles,       \* const savedFiles: string[] (a file is named by its card)
  waitLeft,         \* polling rounds left before the current bounded wait times out
  failures,         \* iterations that have failed so far
  dlCancelled,      \* current value of isCancelled()
  loopResult        \* the DownloadLoopResult returned (<< >> before)

dlVars == <<options, page, dlPc, dlState, savedFiles, waitLeft, failures, dlCancelled,
            loopResult>>

\* the watchdog (startWatchdog, heartbeat, stopWatchdog), for one run id; the
\* unit of time is WATCHDOG_CHECK_INTERVAL_MS
VARIABLES
  wdNow,            \* Date.now()
  watchers,         \* const watchers: run id -> [lastHeartbeat, timeoutMs]
  inFlight,         \* invocations of onTimeout that have not settled: [started, duration]
  lastFire,         \* <<time of the latest invocation of onTimeout of the armed entry>>
  lastBeat,         \* time of the latest heartbeat(runId) call, or of the arming
  watchdogTimeouts, \* let watchdogTimeouts of runDownloads
  fatalWatchdog,    \* let fatalWatchdog of runDownloads
  sinceProgress     \* invocations of onTimeout since the latest heartbeat

wdVars == <<wdNow, watchers, inFlight, lastFire, lastBeat, watchdogTimeouts, fatalWatchdog,
            sinceProgress>>

\* the download budget of a pipeline run (buildWorkflowSteps)
VARIABLES
  scenarioDownloadLimit, \* pipelineOptions.scenarioDownloadLimit (the global limit)
  remainingDownload,     \* let remainingDownload
  maxVideos,             \* session.maxVideos of the sessions
  existingFiles,         \* .mp4 files in a session's download directory at the start
  downloadSteps          \* the download steps: [pc, maxForThis, downloadedCount]

bgVars == <<scenarioDownloadLimit, remainingDownload, maxVideos, existingFiles, downloadSteps>>

\* pipeline runs (runPipeline, cancelPipeline)
VARIABLES
  pipelineCancelled, \* let cancelled of the pipeline module (part_004 line 151)
  runs               \* the calls of runPipeline: [pc, pending, hadError, skipped,
                     \* cancelRequested, startedAfterCancel, finalStatus]

plVars == <<pipelineCancelled, runs>>

\* runs of runWorkflow on reorderings of one step list
VARIABLES
  pmSteps,   \* the step list as first given
  pmOutcome, \* what the body of each step does: "ok" or "reject"
  pmRuns     \* the runs made: [order, statusById], order the listing of the steps

pmVars == <<pmSteps, pmOutcome, pmRuns>>

\* the download directory and the seen-names set of runDownloadLoop
VARIABLES
  downloadDir,      \* the names of the entries of options.downloadDir
  seenNames,        \* const seenNames, in insertion order
  beforeStartNames, \* const beforeStartNames of the current iteration
  dirAtClick,       \* the entries of downloadDir when clickDownload was called
  startedFile,      \* <<the name waitForDownloadStart returned in this iteration>>
  browserDownloads, \* the downloads the browser was asked for: [state, name, click]
  snPc,             \* where runDownloadLoop stands
  maxSeenFiles,     \* MAX_SEEN
  clicks            \* calls of clickDownload so far

snVars == <<downloadDir, seenNames, beforeStartNames, dirAtClick, startedFile,
            browserDownloads, snPc, maxSeenFiles, clicks>>

\* the session steps of a pipeline run that are running when pipeline:skip arrives
VARIABLES
  skipSteps  \* [kind, pc, aborted, failed, left, result, status]

skVars == <<skipSteps>>

\* a ChromePool
VARIABLES
  maxConcurrent, \* this.maxConcurrent
  poolActive,    \* this.active: session id -> the child of its ChromeInstance
  poolQueue,     \* this.queue: the session ids of the queued configs
  launching,     \* calls of launchNewChrome that await the CDP endpoint: [sessionId, child, queued]
  children,      \* the Chrome processes spawned and neither killed nor exited
  spawnCount     \* processes spawned so far

cpVars == <<maxConcurrent, poolActive, poolQueue, launching, children, spawnCount>>

\* a clone directory and the profile it is seeded from
VARIABLES
  sourceFiles,      \* the allow-listed files the source profile holds
  cloneFiles,       \* the files of the clone: name -> where its content comes from
  defaultDirExists, \* the clone has its Default directory
  seedCount         \* calls of ensureCloneSeededFromProfile so far

clVars == <<sourceFiles, cloneFiles, defaultDirExists, seedCount>>

vars == <<steps, cancelled, pc, exitBy, statusById, results, pendingSteps,
          runningPromises, settledPromises, awaited, outcome, runCount,
          registry, controllers, returnedSignal, lastCall, operations,
          sessionCdpPort, viaPipeline, activeSessions, procs, calls, resolved,
          options, page, dlPc, dlState, savedFiles, waitLeft, failures, dlCancelled,
          loopResult, wdNow, watchers, inFlight, lastFire, lastBeat, watchdogTimeouts,
          fatalWatchdog, sinceProgress,
          scenarioDownloadLimit, remainingDownload, maxVideos, existingFiles, downloadSteps,
          pipelineCancelled, runs,
          pmSteps, pmOutcome, pmRuns,
          downloadDir, seenNames, beforeStartNames, dirAtClick, startedFile, browserDownloads, snPc, maxSeenFiles, clicks,
          skipSteps,
          maxConcurrent, poolActive, poolQueue, launching, children, spawnCount,
          sourceFiles, cloneFiles, defaultDirExists, seedCount>>

\* what the scheduler leaves alone, and what the task registry leaves alone
notWfVars == <<trVars, opVars, chVars, pfVars, dlVars, wdVars, bgVars, plVars, pmVars, snVars, skVars, cpVars, clVars>>
notTrVars == <<wfVars, opVars, chVars, pfVars, dlVars, wdVars, bgVars, plVars, pmVars, snVars, skVars, cpVars, clVars>>
notOpVars == <<wfVars, chVars, pfVars, dlVars, wdVars, bgVars, plVars, pmVars, snVars, skVars, cpVars, clVars>>
notChVars == <<wfVars, trVars, opVars, pfVars, dlVars, wdVars, bgVars, plVars, pmVars, snVars, skVars, cpVars, clVars>>
notPfVars == <<wfVars, trVars, opVars, chVars, dlVars, wdVars, bgVars, plVars, pmVars, snVars, skVars, cpVars, clVars>>
notDlVars == <<wfVars, trVars, opVars, chVars, pfVars, wdVars, bgVars, plVars, pmVars, snVars, skVars, cpVars, clVars>>
notWdVars == <<wfVars, trVars, opVars, chVars, pfVars, dlVars, bgVars, plVars, pmVars, snVars, skVars, cpVars, clVars>>
notClVars == <<wfVars, trVars, opVars, chVars, pfVars, dlVars, wdVars, bgVars, plVars, pmVars, snVars, skVars, cpVars>>
notCpVars == <<wfVars, trVars, opVars, chVars, pfVars, dlVars, wdVars, bgVars, plVars, pmVars, snVars, skVars, clVars>>
notSkVars == <<wfVars, trVars, opVars, chVars, pfVars, dlVars, wdVars, bgVars, plVars, pmVars, snVars, cpVars, clVars>>
notSnVars == <<wfVars, trVars, opVars, chVars, pfVars, dlVars, wdVars, bgVars, plVars, pmVars, skVars, cpVars, clVars>>
notPmVars == <<wfVars, trVars, opVars, chVars, pfVars, dlVars, wdVars, bgVars, plVars, snVars, skVars, cpVars, clVars>>
notPlVars == <<wfVars, trVars, opVars, chVars, pfVars, dlVars, wdVars, bgVars, pmVars, snVars, skVars, cpVars, clVars>>
notBgVars == <<wfVars, trVars, opVars, chVars, pfVars, dlVars, wdVars, plVars, pmVars, snVars, skVars, cpVars, clVars>>

StepIds == {steps[i].id : i \in DOMAIN steps}

\* statusById.get(depId)
StatusGet(st, id) == IF id \in DOMAIN st THEN st[id] ELSE "undefined"

Result(step, status, error) == [stepId |-> step.id, status |-> status, error |-> error]

\* results.push(record)
Push(res, record) == res (+) SetToBag({record})

InitWorkflow ==
  /\ IsGenGraph(steps) \/ steps = ExampleSteps
  /\ cancelled = FALSE
  /\ pc = "start"
  /\ exitBy = "none"
  /\ statusById = << >>
  /\ results = EmptyBag
  /\ pendingSteps = {}
  /\ runningPromises = {}
  /\ settledPromises = {}
  /\ awaited = {}
  /\ outcome = [id \in StepIds |-> "none"]
  /\ runCount = [id \in StepIds |-> 0]

(***************************************************************************)
(* Lines 229-246: all steps pending, disabled steps skipped up front.      *)
(***************************************************************************)
\* variant: the enabled flag is not consulted
NoDisabledPositions == {}

DisabledPositions == {i \in DOMAIN steps : ~steps[i].enabled}

RECURSIVE DisabledResults(_)
DisabledResults(i) ==
  IF i = 0 THEN EmptyBag
  ELSE IF steps[i].enabled THEN DisabledResults(i - 1)
       ELSE Push(DisabledResults(i - 1), Result(steps[i], "skipped", "none"))

Begin ==
  /\ pc = "start"
  /\ statusById' = [id \in StepIds |->
                      IF \E i \in DisabledPositions : steps[i].id = id
                      THEN "skipped" ELSE "pending"]
  /\ results' = DisabledResults(Len(steps))
  /\ pendingSteps' = DOMAIN steps \ DisabledPositions
  /\ pc' = "loop"
  /\ UNCHANGED <<steps, cancelled, exitBy, runningPromises, settledPromises,
                 awaited, outcome, runCount>>
  /\ UNCHANGED notWfVars

(***************************************************************************)
(* The loop is at its top (line 248) after the initialisation, and again   *)
(* when the Promise.race of line 346 has resolved: one of the promises it  *)
(* was given has resolved.  Bodies may settle in between.                  *)
(***************************************************************************)
LoopTop ==
  \/ pc = "loop"
  \/ pc = "waitRace" /\ awaited \cap settledPromises # {}

(***************************************************************************)
(* Line 248: the while condition is false.                                 *)
(***************************************************************************)
LoopExit ==
  /\ LoopTop
  /\ pendingSteps = {} /\ runningPromises = {}
  /\ pc' = "done"
  /\ exitBy' = "complete"
  /\ awaited' = {}
  /\ UNCHANGED <<steps, cancelled, statusById, results, pendingSteps,
                 runningPromises, settledPromises, outcome, runCount>>
  /\ UNCHANGED notWfVars

(***************************************************************************)
(* Lines 250-262: cancellation observed at the top of a tick.              *)
(***************************************************************************)
RECURSIVE CancelResults(_, _)
CancelResults(i, pend) ==
  IF i = 0 THEN EmptyBag
  ELSE IF i \in pend
       THEN Push(CancelResults(i - 1, pend), Result(steps[i], "skipped", "Cancelled"))
       ELSE CancelResults(i - 1, pend)

\* variant: the cancelling tick returns without awaiting the running steps
CancelTickNoWait ==
  /\ LoopTop
  /\ pendingSteps # {} \/ runningPromises # {}
  /\ cancelled
  /\ statusById' = [id \in StepIds |->
                      IF \E i \in pendingSteps : steps[i].id = id
                      THEN "skipped" ELSE statusById[id]]
  /\ results' = results (+) CancelResults(Len(steps), pendingSteps)
  /\ pendingSteps' = {}
  /\ exitBy' = "cancel"
  /\ pc' = "done" /\ awaited' = {}
  /\ UNCHANGED <<steps, cancelled, runningPromises, settledPromises, outcome, runCount>>
  /\ UNCHANGED notWfVars

CancelTick ==
  /\ LoopTop
  /\ pendingSteps # {} \/ runningPromises # {}
  /\ cancelled
  /\ statusById' = [id \in StepIds |->
                      IF \E i \in pendingSteps : steps[i].id = id
                      THEN "skipped" ELSE statusById[id]]
  /\ results' = results (+) CancelResults(Len(steps), pendingSteps)
  /\ pendingSteps' = {}
  /\ exitBy' = "cancel"
  /\ IF runningPromises # {}
     THEN pc' = "waitAll" /\ awaited' = runningPromises
     ELSE pc' = "done" /\ awaited' = {}
  /\ UNCHANGED <<steps, cancelled, runningPromises, settledPromises, outcome, runCount>>
  /\ UNCHANGED notWfVars

(***************************************************************************)
(* Lines 264-290: one pass over pendingSteps in insertion order.  A step   *)
(* skipped in this pass is seen as skipped by the steps visited after it.  *)
(***************************************************************************)
\* variant: any failed step counts as a failed dependency
anyStepFailed(st, step) ==
  \E id \in DOMAIN st : st[id] = "error"

anyDepFailed(st, step) ==
  \E depId \in step.dependsOn : StatusGet(st, depId) \in {"error", "skipped"}

\* variant: a dependency that is no longer pending counts as met
allDepsStarted(st, step) ==
  \A depId \in step.dependsOn : StatusGet(st, depId) \in {"running", "success"}

\* variant: identifiers without a status are not waited for
allKnownDepsSuccess(st, step) ==
  \A depId \in step.dependsOn \cap DOMAIN st : st[depId] = "success"

allDepsSuccess(st, step) ==
  \A depId \in step.dependsOn : StatusGet(st, depId) = "success"

RECURSIVE FindReady(_, _)
FindReady(i, s) ==
  IF i > Len(steps) THEN s
  ELSE IF i \notin s.pendingSteps THEN FindReady(i + 1, s)
  ELSE IF anyDepFailed(s.statusById, steps[i])
       THEN FindReady(i + 1,
              [s EXCEPT !.statusById[steps[i].id] = "skipped",
                        !.results = Push(@, Result(steps[i], "skipped", "Dependency failed")),
                        !.pendingSteps = @ \ {i}])
  ELSE IF allDepsSuccess(s.statusById, steps[i])
       THEN FindReady(i + 1, [s EXCEPT !.readySteps = Append(@, i)])
  ELSE FindReady(i + 1, s)

(***************************************************************************)
(* Lines 293-327: start every ready step.  The wrapper runs synchronously  *)
(* up to its await: a body that throws when called is recorded as error    *)
(* and its finally block runs before runningPromises.set.                  *)
(***************************************************************************)
\* variant: a started step stays in pendingSteps
LaunchOneKeepPending(s, i, beh) ==
  LET id == steps[i].id IN
  IF beh = "throw"
  THEN [s EXCEPT !.statusById[id] = "error",
                 !.results = Push(@, Result(steps[i], "error", "body error")),
                 !.runCount[id] = @ + 1,
                 !.outcome[id] = beh,
                 !.settledPromises = @ \cup {id},
                 !.runningPromises = @ \cup {id}]
  ELSE [s EXCEPT !.statusById[id] = "running",
                 !.runCount[id] = @ + 1,
                 !.outcome[id] = beh,
                 !.runningPromises = @ \cup {id}]

LaunchOne(s, i, beh) ==
  LET id == steps[i].id IN
  IF beh = "throw"
  THEN [s EXCEPT !.pendingSteps = @ \ {i},
                 !.statusById[id] = "error",
                 !.results = Push(@, Result(steps[i], "error", "body error")),
                 !.runCount[id] = @ + 1,
                 !.outcome[id] = beh,
                 !.settledPromises = @ \cup {id},
                 !.runningPromises = @ \cup {id}]
  ELSE [s EXCEPT !.pendingSteps = @ \ {i},
                 !.statusById[id] = "running",
                 !.runCount[id] = @ + 1,
                 !.outcome[id] = beh,
                 !.runningPromises = @ \cup {id}]

\* variant: one step is started per tick
LaunchFirstReady(k, s, beh) ==
  IF k > Len(s.readySteps) THEN s
  ELSE LaunchOne(s, s.readySteps[k], beh[s.readySteps[k]])

RECURSIVE LaunchReady(_, _, _)
LaunchReady(k, s, beh) ==
  IF k > Len(s.readySteps) THEN s
  ELSE LaunchReady(k + 1, LaunchOne(s, s.readySteps[k], beh[s.readySteps[k]]), beh)

\* lines 329-337
\* variant: stranded steps are marked but no record is pushed
DeadlockResultsDropped(i, pend) == EmptyBag

RECURSIVE DeadlockResults(_, _)
DeadlockResults(i, pend) ==
  IF i = 0 THEN EmptyBag
  ELSE IF i \in pend
       THEN Push(DeadlockResults(i - 1, pend),
                 Result(steps[i], "error", "Deadlock: dependencies never met"))
       ELSE DeadlockResults(i - 1, pend)

TickState ==
  [statusById |-> statusById, results |-> results, pendingSteps |-> pendingSteps,
   readySteps |-> << >>, runningPromises |-> runningPromises,
   settledPromises |-> settledPromises, outcome |-> outcome, runCount |-> runCount]

(***************************************************************************)
(* Lines 264-347: a scheduler tick without cancellation.                   *)
(***************************************************************************)
ScheduleTick ==
  /\ LoopTop
  /\ pendingSteps # {} \/ runningPromises # {}
  /\ ~cancelled
  /\ LET found == FindReady(1, TickState) IN
     \E beh \in [{found.readySteps[k] : k \in DOMAIN found.readySteps} -> Behaviours] :
       LET s == LaunchReady(1, found, beh) IN
         /\ outcome' = s.outcome
         /\ runCount' = s.runCount
         /\ runningPromises' = s.runningPromises
         /\ settledPromises' = s.settledPromises
         /\ IF s.runningPromises = {} /\ s.pendingSteps # {}
            THEN /\ statusById' = [id \in StepIds |->
                                     IF \E i \in s.pendingSteps : steps[i].id = id
                                     THEN "error" ELSE s.statusById[id]]
                 /\ results' = s.results (+) DeadlockResults(Len(steps), s.pendingSteps)
                 /\ pendingSteps' = s.pendingSteps
                 /\ pc' = "done" /\ exitBy' = "deadlock" /\ awaited' = {}
            ELSE /\ statusById' = s.statusById
                 /\ results' = s.results
                 /\ pendingSteps' = s.pendingSteps
                 /\ IF s.runningPromises = {}
                    THEN pc' = "done" /\ exitBy' = "complete" /\ awaited' = {}
                    ELSE pc' = "waitRace" /\ exitBy' = exitBy /\ awaited' = s.runningPromises
  /\ UNCHANGED <<steps, cancelled>>
  /\ UNCHANGED notWfVars

(***************************************************************************)
(* Lines 304-323: a body settles; the rest of the wrapper runs.            *)
(***************************************************************************)
Settle(i) ==
  LET id == steps[i].id IN
  /\ pc \in {"loop", "waitRace", "waitAll"}
  /\ statusById[id] = "running"
  /\ id \in runningPromises /\ id \notin settledPromises
  /\ \E how \in Settlements :
       /\ outcome' = [outcome EXCEPT ![id] = how]
       /\ IF how = "ok"
          THEN /\ statusById' = [statusById EXCEPT ![id] = "success"]
               /\ results' = Push(results, Result(steps[i], "success", "none"))
          ELSE /\ statusById' = [statusById EXCEPT ![id] = "error"]
               /\ results' = Push(results, Result(steps[i], "error", "body error"))
  /\ runningPromises' = runningPromises \ {id}
  /\ settledPromises' = settledPromises \cup {id}
  /\ UNCHANGED <<steps, cancelled, pc, exitBy, pendingSteps, awaited, runCount>>
  /\ UNCHANGED notWfVars

\* line 259: Promise.allSettled resolves once all of them have
ResumeAll ==
  /\ pc = "waitAll"
  /\ awaited \subseteq settledPromises
  /\ pc' = "done"
  /\ awaited' = {}
  /\ UNCHANGED <<steps, cancelled, exitBy, statusById, results, pendingSteps,
                 runningPromises, settledPromises, outcome, runCount>>
  /\ UNCHANGED notWfVars

\* the caller's cancellation flag is raised (cancelPipeline sets cancelled = true)
RequestCancel ==
  /\ pc # "done"
  /\ ~cancelled
  /\ cancelled' = TRUE
  /\ UNCHANGED <<steps, pc, exitBy, statusById, results, pendingSteps,
                 runningPromises, settledPromises, awaited, outcome, runCount>>
  /\ UNCHANGED notWfVars

(***************************************************************************)
(* Task registry (electron/automation/taskRegistry): one ActiveTask per    *)
(* session id, each with its own AbortController.                          *)
(***************************************************************************)
SessionIds == {"sessA", "sessB"}
TaskTypes == {"prompts", "download", "pipeline"}

InitRegistry ==
  /\ registry = << >>
  /\ controllers = << >>
  /\ returnedSignal = 0
  /\ lastCall = "none"

\* registry after registry.delete(sessionId)
MapDelete(m, k) == [x \in DOMAIN m \ {k} |-> m[x]]

\* registry after registry.set(sessionId, task)
MapSet(m, k, v) == [x \in DOMAIN m \cup {k} |-> IF x = k THEN v ELSE m[x]]

\* controller.abort()
Abort(cs, c) == [cs EXCEPT ![c].aborted = TRUE]

\* lines 31-38: the registry and the controllers after stopTask(sessionId)
stopTaskRegistry(reg, sessionId) ==
  IF sessionId \in DOMAIN reg THEN MapDelete(reg, sessionId) ELSE reg

\* variant: the entry is deleted without controller.abort()
stopTaskKeepsSignal(reg, cs, sessionId) == cs

stopTaskControllers(reg, cs, sessionId) ==
  IF sessionId \in DOMAIN reg THEN Abort(cs, reg[sessionId].controller) ELSE cs

\* lines 13-29
startTaskCall(sessionId, type) ==
  /\ Len(controllers) < MaxTasks
  /\ LET busy == sessionId \in DOMAIN registry
         reg == IF busy THEN stopTaskRegistry(registry, sessionId) ELSE registry
         cs  == IF busy THEN stopTaskControllers(registry, controllers, sessionId)
                ELSE controllers
         c   == Len(cs) + 1
     IN /\ controllers' = Append(cs, [sessionId |-> sessionId, aborted |-> FALSE])
        /\ registry' = MapSet(reg, sessionId, [type |-> type, controller |-> c])
        /\ returnedSignal' = c
  /\ lastCall' = "startTask"

startTask(sessionId, type) ==
  /\ startTaskCall(sessionId, type)
  /\ UNCHANGED notTrVars

\* lines 31-38
stopTaskCall(sessionId) ==
  /\ registry' = stopTaskRegistry(registry, sessionId)
  /\ controllers' = stopTaskControllers(registry, controllers, sessionId)
  /\ lastCall' = "stopTask"
  /\ UNCHANGED returnedSignal

stopTask(sessionId) ==
  /\ stopTaskCall(sessionId)
  /\ UNCHANGED notTrVars

\* lines 42-45, one pass of the for-of loop: the entry is aborted and deleted.
\* Deleting the entry a Map iterator stands on does not end the iteration.
RECURSIVE cancelEntries(_, _)
cancelEntries(reg, cs) ==
  IF DOMAIN reg = {} THEN [reg |-> reg, cs |-> cs]
  ELSE LET sessionId == CHOOSE sid \in DOMAIN reg : TRUE
       IN cancelEntries(MapDelete(reg, sessionId), Abort(cs, reg[sessionId].controller))

\* variant: the iteration ends after the first deletion
cancelFirstEntry(reg, cs) ==
  IF DOMAIN reg = {} THEN [reg |-> reg, cs |-> cs]
  ELSE LET sessionId == CHOOSE sid \in DOMAIN reg : TRUE
       IN [reg |-> MapDelete(reg, sessionId), cs |-> Abort(cs, reg[sessionId].controller)]

cancelAllEntries(reg, cs) == cancelEntries(reg, cs)

\* lines 40-46: every entry is visited, aborted and deleted
cancelAllTasks ==
  /\ controllers' = cancelAllEntries(registry, controllers).cs
  /\ registry' = cancelAllEntries(registry, controllers).reg
  /\ lastCall' = "cancelAllTasks"
  /\ UNCHANGED returnedSignal
  /\ UNCHANGED notTrVars

(***************************************************************************)
(* Task-running operations.  Each one calls startTask first and runs its   *)
(* body in try / finally { stopTask(session.id) }; what lies between the   *)
(* startTask call and the try differs from one operation to the other.     *)
(***************************************************************************)
OperationKinds == {"runDownloads", "runPromptsAdapter", "runGenericPromptLoop"}

\* the task type each operation registers
TaskTypeOf(kind) == IF kind = "runDownloads" THEN "download" ELSE "prompts"

\* runDownloads enters its try block at once; the other two first await
\* getSessionPaths / getConfig outside of it
FirstPc(kind) == IF kind = "runDownloads" THEN "try" ELSE "preamble"

\* ways the awaits and tests before the try block can end
PreambleExits(kind) ==
  IF kind = "runGenericPromptLoop" THEN {"ok", "reject", "earlyReturn"}
  ELSE {"ok", "reject"}

\* ways the try block can end; "cancelled" needs the operation's signal aborted
BodyExits == {"success", "error", "earlyReturn", "cancelled"}

InitOperations == operations = << >>

\* the call up to its first await: startTask(session.id, type)
OperationStart(kind, sessionId) ==
  /\ Len(operations) < MaxOperations
  /\ startTaskCall(sessionId, TaskTypeOf(kind))
  /\ operations' = Append(operations,
                          [kind |-> kind, sessionId |-> sessionId,
                           signal |-> returnedSignal', pc |-> FirstPc(kind), exit |-> "none"])
  /\ UNCHANGED notOpVars

\* the statements between startTask and try: nothing here calls stopTask
OperationPreamble(o, how) ==
  /\ operations[o].pc = "preamble"
  /\ how \in PreambleExits(operations[o].kind)
  /\ operations' = [operations EXCEPT ![o].pc = IF how = "ok" THEN "try" ELSE "finished",
                                       ![o].exit = IF how = "ok" THEN "none" ELSE how]
  /\ UNCHANGED <<trVars, notOpVars>>

\* the try block ends and finally runs stopTask(session.id)
OperationFinish(o, how) ==
  /\ operations[o].pc = "try"
  /\ how = "cancelled" => controllers[operations[o].signal].aborted
  /\ stopTaskCall(operations[o].sessionId)
  /\ operations' = [operations EXCEPT ![o].pc = "finished", ![o].exit = how]
  /\ UNCHANGED notOpVars

(***************************************************************************)
(* Ports handed to the Chrome session manager.                             *)
(***************************************************************************)
NullPort == -1
FALLBACK_CDP_PORT == 9222
\* cdpPort of the default configuration
configCdpPort == 9222
SessionList == <<"sessA", "sessB">>

\* s.cdpPort && Number.isFinite(s.cdpPort) && s.cdpPort > 0
IsFixedPort(p) == p # NullPort /\ p > 0

\* sessions/sessionChrome resolvePort: session.cdpPort ?? config?.cdpPort ?? 9222
resolvePort(sessionPort, configPort) ==
  LET candidate == IF sessionPort # NullPort THEN sessionPort
                   ELSE IF configPort # NullPort THEN configPort
                   ELSE FALLBACK_CDP_PORT
  IN IF candidate > 0 THEN candidate ELSE FALLBACK_CDP_PORT

\* while (usedPorts.has(nextPort)) nextPort++
RECURSIVE NextFreePort(_, _)
NextFreePort(usedPorts, nextPort) ==
  IF nextPort \in usedPorts THEN NextFreePort(usedPorts, nextPort + 1) ELSE nextPort

\* the sessions.map(...) of assignRuntimePorts, from position i on
RECURSIVE AssignFrom(_, _, _, _)
AssignFrom(ports, i, usedPorts, nextPort) ==
  IF i > Len(ports) THEN << >>
  ELSE IF IsFixedPort(ports[i])
       THEN <<ports[i]>> \o AssignFrom(ports, i + 1, usedPorts, nextPort)
       ELSE LET free == NextFreePort(usedPorts, nextPort)
            IN <<free>> \o AssignFrom(ports, i + 1, usedPorts \cup {free}, free)

\* pipeline assignRuntimePorts: configured ports are reserved and kept, the
\* other sessions get the next free port from 9222 on
assignRuntimePorts(ports) ==
  AssignFrom(ports, 1, {ports[i] : i \in {j \in DOMAIN ports : IsFixedPort(ports[j])}}, 9222)

PositionOf(sessionId) == CHOOSE i \in DOMAIN SessionList : SessionList[i] = sessionId

\* the port ensureBrowserForSession passes for a session, called from a
\* pipeline step (after assignRuntimePorts) or directly
PortFor(sessionId) ==
  LET configured == [i \in DOMAIN SessionList |-> sessionCdpPort[SessionList[i]]]
      own == IF viaPipeline THEN assignRuntimePorts(configured)[PositionOf(sessionId)]
             ELSE sessionCdpPort[sessionId]
  IN resolvePort(own, configCdpPort)

(***************************************************************************)
(* Chrome session manager: getOrLaunchChromeForProfile and the launcher.   *)
(* An endpoint accepts a connection while its process is alive; a port     *)
(* answers the /json/version request while a live process listens on it.   *)
(* shutdownAllChrome runs only in the before-quit handler (main.ts): the   *)
(* model covers the manager while the application runs.                    *)
(***************************************************************************)
\* session.cdpPort is null unless the user has set it
NoPortSet == [sid \in SessionIds |-> NullPort]
SecondPinned == [sid \in SessionIds |-> IF sid = "sessB" THEN 9222 ELSE NullPort]

\* the configurations run: sessions without a port of their own run one by
\* one or by the pipeline, and a pipeline whose second session is pinned to
\* the default port
RunConfigs == {<<NoPortSet, FALSE>>, <<NoPortSet, TRUE>>, <<SecondPinned, TRUE>>}

\* the manager is fresh, or (sessions run one by one) an earlier call has
\* launched the first session
InitChrome ==
  /\ \E config \in RunConfigs : sessionCdpPort = config[1] /\ viaPipeline = config[2]
  /\ \/ /\ activeSessions = << >>
        /\ procs = << >>
     \/ /\ ~viaPipeline
        /\ activeSessions = [sid \in {"sessA"} |-> [port |-> PortFor(sid), wsEndpoint |-> 1]]
        /\ procs = <<[port |-> PortFor("sessA"), state |-> "alive"]>>
  /\ calls = << >>

IdleChrome ==
  /\ sessionCdpPort = [sid \in SessionIds |-> NullPort]
  /\ viaPipeline = FALSE
  /\ activeSessions = << >>
  /\ procs = << >>
  /\ calls = << >>

\* checkCdpPort(port): the endpoints answering on the port
Answering(port) == {p \in DOMAIN procs : procs[p].port = port /\ procs[p].state = "alive"}

Accepts(ws) == ws \in DOMAIN procs /\ procs[ws].state = "alive"

\* a call that has returned or thrown is kept, without its arguments, until
\* the next call ends; after that nothing of it is left
Forgotten ==
  [sessionId |-> "", port |-> 0, pc |-> "done", ws |-> 0, probed |-> "none",
   spawned |-> 0, exit |-> "none"]

Finish(c, probe, position, how) ==
  [k \in DOMAIN calls |->
     IF k = c
     THEN [calls[k] EXCEPT !.pc = position, !.exit = how, !.probed = probe,
                           !.sessionId = "", !.port = 0, !.ws = 0]
     ELSE IF calls[k].pc \in {"returned", "thrown", "done"} THEN Forgotten
     ELSE calls[k]]

\* variant: a stale record is left in place
StaleRecordKept(sessions, sessionId) == sessions

\* line 741: activeSessions.delete(sessionId)
StaleRecord(sessions, sessionId) ==
  IF sessionId \in DOMAIN sessions THEN MapDelete(sessions, sessionId) ELSE sessions

\* lines 715-728: the call up to its first await
getOrLaunchChromeForProfile(sessionId) ==
  /\ Len(calls) < MaxCalls
  /\ LET active == sessionId \in DOMAIN activeSessions
     IN calls' = Append(calls,
          [sessionId |-> sessionId, port |-> PortFor(sessionId),
           pc |-> IF active THEN "probe" ELSE "launch",
           ws |-> IF active THEN activeSessions[sessionId].wsEndpoint ELSE 0,
           probed |-> "none", spawned |-> 0, exit |-> "none"])
  /\ UNCHANGED <<sessionCdpPort, viaPipeline, activeSessions, procs>>
  /\ UNCHANGED notChVars

\* lines 729-743: puppeteer.connect to the recorded endpoint
Probe(c) ==
  /\ calls[c].pc = "probe"
  /\ IF Accepts(calls[c].ws)
     THEN /\ calls' = Finish(c, "live", "returned", "reconnected")
          /\ UNCHANGED activeSessions
     ELSE /\ calls' = [calls EXCEPT ![c].pc = "launch", ![c].probed = "stale", ![c].ws = 0]
          /\ activeSessions' = StaleRecord(activeSessions, calls[c].sessionId)
  /\ UNCHANGED <<sessionCdpPort, viaPipeline, procs>>
  /\ UNCHANGED notChVars

\* ways the preparation of a launch can end: resolveProfileLaunchTarget,
\* verifyProfileClone or the seeding reject (lines 746-752, outside the try
\* block), or resolveChromeExecutablePath rejects (launcher line 69, thrown
\* again at line 790), or the port check is reached
Preparations == {"ok", "prepareFailed", "launchFailed"}

\* lines 746-756 and launchChromeWithCdp lines 67-120: the paths and the
\* executable are resolved (none of this reads the registry or a port), the
\* port is checked, and either ALREADY_RUNNING is thrown and caught at lines
\* 776-787 (the record is set, the endpoint attached), or a process is spawned
LaunchCheck(c, prepared) ==
  /\ calls[c].pc = "launch"
  /\ IF prepared # "ok"
     THEN /\ calls' = Finish(c, calls[c].probed, "thrown", prepared)
          /\ UNCHANGED <<activeSessions, procs>>
     ELSE IF Answering(calls[c].port) # {}
     THEN LET existingWs == CHOOSE p \in Answering(calls[c].port) : TRUE
          IN /\ activeSessions' = MapSet(activeSessions, calls[c].sessionId,
                                         [port |-> calls[c].port, wsEndpoint |-> existingWs])
             /\ calls' = [calls EXCEPT ![c].pc = "attach", ![c].ws = existingWs]
             /\ UNCHANGED procs
     ELSE /\ procs' = Append(procs, [port |-> calls[c].port, state |-> "starting"])
          /\ calls' = [calls EXCEPT ![c].pc = "poll", ![c].ws = Len(procs) + 1,
                                    ![c].spawned = calls[c].spawned + 1]
          /\ UNCHANGED activeSessions
  /\ UNCHANGED <<sessionCdpPort, viaPipeline>>
  /\ UNCHANGED notChVars

\* ways one wait of the polling loop can end
PollOutcomes == {"answer", "exit", "timeout"}

\* launchChromeWithCdp lines 131-152 and manager line 763: the polling loop
\* ends by the exit of the child (a child that has not come up may exit now),
\* by an answer on the port (the record is set), or by the 30 s timeout
PollCdp(c, ended) ==
  /\ calls[c].pc = "poll"
  /\ LET child == calls[c].ws
         hasExited == \/ procs[child].state = "dead"
                      \/ procs[child].state = "starting" /\ ended = "exit"
     IN IF hasExited
        THEN /\ calls' = Finish(c, calls[c].probed, "thrown", "crashed")
             /\ procs' = [procs EXCEPT ![child].state = "dead"]
             /\ UNCHANGED activeSessions
        ELSE IF Answering(calls[c].port) # {}
        THEN LET wsUrl == CHOOSE p \in Answering(calls[c].port) : TRUE
             IN /\ ended = "answer"
                /\ activeSessions' = MapSet(activeSessions, calls[c].sessionId,
                                            [port |-> calls[c].port, wsEndpoint |-> wsUrl])
                /\ calls' = [calls EXCEPT ![c].pc = "connect", ![c].ws = wsUrl]
                /\ UNCHANGED procs
        ELSE /\ ended = "timeout"
             /\ calls' = Finish(c, calls[c].probed, "thrown", "timeout")
             /\ UNCHANGED <<activeSessions, procs>>
  /\ UNCHANGED <<sessionCdpPort, viaPipeline>>
  /\ UNCHANGED notChVars

\* lines 765-790: puppeteer.connect to the launched endpoint; a rejection is
\* caught, is not ALREADY_RUNNING, and is thrown again
Connect(c) ==
  /\ calls[c].pc = "connect"
  /\ calls' = IF Accepts(calls[c].ws)
              THEN Finish(c, calls[c].probed, "returned", "launched")
              ELSE Finish(c, calls[c].probed, "thrown", "connectFailed")
  /\ UNCHANGED <<sessionCdpPort, viaPipeline, activeSessions, procs>>
  /\ UNCHANGED notChVars

\* lines 783-786: return puppeteer.connect(wsUrl) of the ALREADY_RUNNING branch
Attach(c) ==
  /\ calls[c].pc = "attach"
  /\ calls' = IF Accepts(calls[c].ws)
              THEN Finish(c, calls[c].probed, "returned", "attached")
              ELSE Finish(c, calls[c].probed, "thrown", "attachFailed")
  /\ UNCHANGED <<sessionCdpPort, viaPipeline, activeSessions, procs>>
  /\ UNCHANGED notChVars

\* a spawned Chrome starts to answer on its port, unless the port is taken
ProcUp(p) ==
  /\ procs[p].state = "starting"
  /\ Answering(procs[p].port) = {}
  /\ procs' = [procs EXCEPT ![p].state = "alive"]
  /\ UNCHANGED <<sessionCdpPort, viaPipeline, activeSessions, calls>>
  /\ UNCHANGED notChVars

\* a running Chrome exits (crash, or its window is closed by the user)
ProcExit(p) ==
  /\ procs[p].state = "alive"
  /\ procs' = [procs EXCEPT ![p].state = "dead"]
  /\ UNCHANGED <<sessionCdpPort, viaPipeline, activeSessions, calls>>
  /\ UNCHANGED notChVars

(***************************************************************************)
(* Profile directories (chrome/profiles.ts).  A string is the sequence of  *)
(* its characters.                                                         *)
(***************************************************************************)
SliceLen == 8

IsSpace(ch) == ch = " "

\* toLowerCase, on the characters used
Lower(ch) == IF ch = "A" THEN "a" ELSE IF ch = "P" THEN "p" ELSE ch

\* the characters /[^a-z0-9-_]/gi leaves in place
IsSlugChar(ch) == ch \in {"a", "b", "p", "A", "P", "1", "2", "-", "_"}

RECURSIVE TrimStart(_)
TrimStart(str) ==
  IF str # << >> /\ IsSpace(Head(str)) THEN TrimStart(Tail(str)) ELSE str

RECURSIVE TrimEnd(_)
TrimEnd(str) ==
  IF str # << >> /\ IsSpace(str[Len(str)]) THEN TrimEnd(SubSeq(str, 1, Len(str) - 1)) ELSE str

\* replace(/\s+/g, '-'): each run of white space becomes one dash
RECURSIVE DashSpaces(_)
DashSpaces(str) ==
  IF str = << >> THEN << >>
  ELSE IF IsSpace(Head(str)) THEN <<"-">> \o DashSpaces(TrimStart(str))
  ELSE <<Head(str)>> \o DashSpaces(Tail(str))

\* replace(/[^a-z0-9-_]/gi, '')
RECURSIVE StripOthers(_)
StripOthers(str) ==
  IF str = << >> THEN << >>
  ELSE IF IsSlugChar(Head(str)) THEN <<Head(str)>> \o StripOthers(Tail(str))
  ELSE StripOthers(Tail(str))

\* lines 55-58
slugifyProfileName(name) ==
  LET trimmed == TrimEnd(TrimStart(name))
      lowered == [i \in DOMAIN trimmed |-> Lower(trimmed[i])]
      normalized == StripOthers(DashSpaces(lowered))
  IN IF Len(normalized) > 0 THEN normalized ELSE <<"p", "r", "o", "f", "i", "l", "e">>

\* sessionId.slice(0, 8)
Slice(str) == SubSeq(str, 1, IF Len(str) < SliceLen THEN Len(str) ELSE SliceLen)

\* lines 174-178: the directory under the clone root
userDataDirOf(baseName, sessionId) ==
  LET sessionSuffix == IF sessionId # << >> THEN <<"_">> \o Slice(sessionId) ELSE << >>
  IN <<"cloneRoot", "/">> \o slugifyProfileName(baseName \o sessionSuffix)

\* profile.profileDirectory || profile.name || profile.id
BaseNames == {<<"P">>, <<"P", " ", "1">>, <<"P", "_", "a">>}

RECURSIVE Repeat(_, _)
Repeat(ch, n) == IF n = 0 THEN << >> ELSE <<ch>> \o Repeat(ch, n - 1)

RECURSIVE Strings(_, _)
Strings(chars, n) ==
  IF n = 0 THEN {<< >>}
  ELSE Strings(chars, n - 1) \cup {<<ch>> \o str : ch \in chars, str \in Strings(chars, n - 1)}

\* session identifiers: up to SliceLen equal characters and a tail
EntityIds ==
  {Repeat("a", k) \o tail : k \in 0..SliceLen, tail \in Strings({"a", "b", "A", "."}, MaxTail)}
    \ {<< >>}

InitProfiles == resolved = << >>

\* lines 164-184
resolveProfileLaunchTarget(baseName, sessionId) ==
  /\ Len(resolved) < MaxResolved
  /\ resolved' = Append(resolved, [profileName |-> baseName, sessionId |-> sessionId,
                                   userDataDir |-> userDataDirOf(baseName, sessionId)])
  /\ UNCHANGED notPfVars

(***************************************************************************)
(* The download loop.  Every bounded wait of the code polls until its      *)
(* condition is met or its timeout has passed; a wait is WaitRounds polls  *)
(* long.  Every await of an iteration may reject.                          *)
(***************************************************************************)
Max(a, b) == IF a > b THEN a ELSE b

\* line 299: Math.max(0, maxDownloads - skipCount)
videosToDownload == Max(0, options.maxDownloads - options.skipCount)

InitDownload ==
  /\ options \in [maxDownloads : 0..MaxDownloads, skipCount : 0..MaxSkip]
  /\ page \in [cards : 0..MaxCards, index : {0}]
  /\ dlPc = "openCard"
  /\ dlState = "Idle"
  /\ savedFiles = << >>
  /\ waitLeft = 0
  /\ failures = 0
  /\ dlCancelled = FALSE
  /\ loopResult = << >>

IdleDownload ==
  /\ options = [maxDownloads |-> 0, skipCount |-> 0]
  /\ page = [cards |-> 0, index |-> 0]
  /\ dlPc = "idle"
  /\ dlState = "Idle"
  /\ savedFiles = << >>
  /\ waitLeft = 0
  /\ failures = 0
  /\ dlCancelled = FALSE
  /\ loopResult = << >>

\* variant: every return reports Done
ReturnDone(lastState) ==
  /\ dlState' = "Done"
  /\ loopResult' = [completed |-> Len(savedFiles), savedFiles |-> savedFiles,
                     lastState |-> dlState']
  /\ dlPc' = "returned"

\* lines 361-365: the statements after the loop
Return(lastState) ==
  /\ dlState' = IF Len(savedFiles) >= videosToDownload THEN "Done" ELSE lastState
  /\ loopResult' = [completed |-> Len(savedFiles), savedFiles |-> savedFiles,
                     lastState |-> dlState']
  /\ dlPc' = "returned"

\* variant: the error of an iteration leaves the function
FailThrows ==
  /\ failures < MaxFailures
  /\ failures' = failures + 1
  /\ dlPc' = "thrown"
  /\ UNCHANGED <<dlState, loopResult>>

\* lines 348-353: the catch block of an iteration, up to its await; the loop
\* keeps no count of its failed iterations, the count kept here stops at MaxFailures
Fail ==
  /\ failures' = IF failures < MaxFailures THEN failures + 1 ELSE failures
  /\ dlState' = "SwipeNext"
  /\ dlPc' = "recoverySwipe"
  /\ UNCHANGED loopResult

\* lines 141-162, performSafeSwipe: the next card is opened, if the feed has one
Swiped == [page EXCEPT !.index = IF page.index + 1 < page.cards THEN page.index + 1
                                  ELSE page.index]

\* lines 286-292: openCardAtIndex(page, skipCount); a rejection is thrown again
OpenCard(ok) ==
  /\ dlPc = "openCard"
  /\ IF ok /\ options.skipCount < page.cards
     THEN /\ page' = [page EXCEPT !.index = options.skipCount]
          /\ dlPc' = "loopTop"
     ELSE /\ dlPc' = "thrown"
          /\ UNCHANGED page
  /\ dlState' = "OpenCard"
  /\ UNCHANGED <<options, savedFiles, waitLeft, failures, dlCancelled, loopResult>>
  /\ UNCHANGED notDlVars

\* variant: one more file than the target
NeedsMoreOrEqual == Len(savedFiles) <= videosToDownload

\* line 302: the loop condition
NeedsMore == Len(savedFiles) < videosToDownload

\* lines 302-314: the loop condition, the cancellation test, the start of the
\* card-ready wait
WhileTop ==
  /\ dlPc = "loopTop"
  /\ IF NeedsMore /\ ~dlCancelled
     THEN /\ dlState' = "WaitCardReady"
          /\ dlPc' = "waitCardReady"
          /\ waitLeft' = WaitRounds
          /\ UNCHANGED loopResult
     ELSE /\ Return(dlState)
          /\ UNCHANGED waitLeft
  /\ UNCHANGED <<options, page, savedFiles, failures, dlCancelled>>
  /\ UNCHANGED notDlVars

Polls == {"met", "notYet"}

\* a poll of a bounded wait that did not find its condition: the wait goes on
\* until its timeout and then rejects
NotYet ==
  IF waitLeft > 1
  THEN /\ waitLeft' = waitLeft - 1
       /\ UNCHANGED <<dlPc, dlState, failures, loopResult>>
  ELSE /\ Fail
       /\ UNCHANGED waitLeft

\* lines 227-233, 314-317: waitUntilCardReady (READY_TIMEOUT_MS)
WaitCardReady(poll) ==
  /\ dlPc = "waitCardReady"
  /\ IF poll = "met"
     THEN /\ dlState' = "StartDownload"
          /\ dlPc' = "clickDownload"
          /\ UNCHANGED <<waitLeft, failures, loopResult>>
     ELSE NotYet
  /\ UNCHANGED <<options, page, savedFiles, dlCancelled>>
  /\ UNCHANGED notDlVars

\* lines 317-324: clickDownload
ClickDownload(ok) ==
  /\ dlPc = "clickDownload"
  /\ IF ok
     THEN /\ dlState' = "WaitDownloadStart"
          /\ dlPc' = "waitDownloadStart"
          /\ waitLeft' = WaitRounds
          /\ UNCHANGED <<failures, loopResult>>
     ELSE /\ Fail
          /\ UNCHANGED waitLeft
  /\ UNCHANGED <<options, page, savedFiles, dlCancelled>>
  /\ UNCHANGED notDlVars

\* lines 19-39, 324-329: waitForDownloadStart (DOWNLOAD_START_TIMEOUT_MS)
WaitDownloadStart(poll) ==
  /\ dlPc = "waitDownloadStart"
  /\ IF poll = "met"
     THEN /\ dlState' = "WaitFileSaved"
          /\ dlPc' = "waitFileSaved"
          /\ waitLeft' = WaitRounds
          /\ UNCHANGED <<failures, loopResult>>
     ELSE NotYet
  /\ UNCHANGED <<options, page, savedFiles, dlCancelled>>
  /\ UNCHANGED notDlVars

\* lines 41-85, 329-335: waitUntilFileSaved (FILE_SAVE_TIMEOUT_MS), then
\* savedFiles.push
WaitFileSaved(poll) ==
  /\ dlPc = "waitFileSaved"
  /\ IF poll = "met"
     THEN /\ savedFiles' = Append(savedFiles, page.index)
          /\ dlState' = "PostDownloadDelay"
          /\ dlPc' = "postDelay"
          /\ waitLeft' = WaitRounds
          /\ UNCHANGED <<failures, loopResult>>
     ELSE /\ NotYet
          /\ UNCHANGED savedFiles
  /\ UNCHANGED <<options, page, dlCancelled>>
  /\ UNCHANGED notDlVars

\* lines 335-345: delay(POST_DOWNLOAD_WAIT_MS), then the test for the target
PostDownloadDelay ==
  /\ dlPc = "postDelay"
  /\ IF waitLeft > 1
     THEN /\ waitLeft' = waitLeft - 1
          /\ UNCHANGED <<dlPc, dlState, loopResult>>
     ELSE /\ IF Len(savedFiles) >= videosToDownload
             THEN Return("Done")
             ELSE /\ dlState' = "SwipeNext"
                  /\ dlPc' = "swipe"
                  /\ UNCHANGED loopResult
          /\ UNCHANGED waitLeft
  /\ UNCHANGED <<options, page, savedFiles, failures, dlCancelled>>
  /\ UNCHANGED notDlVars

\* lines 345-346: performSafeSwipe at the end of an iteration
SwipeNext(ok) ==
  /\ dlPc = "swipe"
  /\ IF ok
     THEN /\ page' = Swiped
          /\ dlPc' = "loopTop"
          /\ UNCHANGED <<dlState, failures, loopResult>>
     ELSE /\ Fail
          /\ UNCHANGED page
  /\ UNCHANGED <<options, savedFiles, waitLeft, dlCancelled>>
  /\ UNCHANGED notDlVars

\* lines 354-357: the recovery swipe failed: break
RecoveryFailed == Return(dlState)

\* lines 351-357: the recovery swipe of the catch block
RecoverySwipe(ok) ==
  /\ dlPc = "recoverySwipe"
  /\ IF ok
     THEN /\ page' = Swiped
          /\ dlPc' = "loopTop"
          /\ UNCHANGED <<dlState, loopResult>>
     ELSE /\ RecoveryFailed
          /\ UNCHANGED page
  /\ UNCHANGED <<options, savedFiles, waitLeft, failures, dlCancelled>>
  /\ UNCHANGED notDlVars

\* isCancelled() starts to answer true (the task is aborted, downloader.ts 139)
Cancel ==
  /\ dlPc \notin {"idle", "returned", "thrown"}
  /\ ~dlCancelled
  /\ dlCancelled' = TRUE
  /\ UNCHANGED <<options, page, dlPc, dlState, savedFiles, waitLeft, failures, loopResult>>
  /\ UNCHANGED notDlVars

\* the steps of runDownloadLoop itself
LoopStep ==
  \/ \E ok \in BOOLEAN : OpenCard(ok)
  \/ WhileTop
  \/ \E poll \in Polls : WaitCardReady(poll)
  \/ \E ok \in BOOLEAN : ClickDownload(ok)
  \/ \E poll \in Polls : WaitDownloadStart(poll)
  \/ \E poll \in Polls : WaitFileSaved(poll)
  \/ PostDownloadDelay
  \/ \E ok \in BOOLEAN : SwipeNext(ok)
  \/ \E ok \in BOOLEAN : RecoverySwipe(ok)

NextDownload ==
  \/ LoopStep
  \/ Cancel

(***************************************************************************)
(* The watchdog.  The interval callback of startWatchdog runs once per     *)
(* unit of time; it awaits onTimeout, whose promise settles a number of    *)
(* units later, and only then resets lastHeartbeat.                        *)
(***************************************************************************)
NoFire == << >>
MAX_WATCHDOG_RESTARTS == 2

\* downloader.ts lines 85-86: the counters of a run that has just armed its entry
FreshRun ==
  /\ lastFire = NoFire
  /\ lastBeat = wdNow
  /\ watchdogTimeouts = 0
  /\ fatalWatchdog = FALSE
  /\ sinceProgress = 0

RunId == "download:sessA"
Armed == RunId \in DOMAIN watchers

\* lines 702-733: the entry is armed, no heartbeat yet
InitWatchdog ==
  /\ wdNow = 0
  /\ \E timeoutMs \in 1..MaxTimeout :
       watchers = [r \in {RunId} |-> [lastHeartbeat |-> 0, timeoutMs |-> timeoutMs]]
  /\ inFlight = {}
  /\ FreshRun

IdleWatchdog ==
  /\ wdNow = 0
  /\ watchers = << >>
  /\ inFlight = {}
  /\ FreshRun

\* an invocation of onTimeout whose promise is due to settle
Due(c) == wdNow - c.started >= c.duration

\* variant: the entry is removed once onTimeout has run
SnoozedDisarms == MapDelete(watchers, RunId)

\* lines 722-729, the finally block: the entry of the run id, if any, is snoozed
Snoozed == IF Armed THEN [watchers EXCEPT ![RunId].lastHeartbeat = wdNow] ELSE watchers

\* variant: the entry expires when the budget is reached
ExpiredAtBudget(now) == now - watchers[RunId].lastHeartbeat >= watchers[RunId].timeoutMs

\* line 716: now - current.lastHeartbeat > current.timeoutMs
Expired(now) == now - watchers[RunId].lastHeartbeat > watchers[RunId].timeoutMs

\* downloader.ts lines 117-125: the body of onTimeout (it has no await)
onTimeout ==
  /\ watchdogTimeouts' = watchdogTimeouts + 1
  /\ fatalWatchdog' = (fatalWatchdog \/ watchdogTimeouts' >= MAX_WATCHDOG_RESTARTS)
  /\ sinceProgress' = sinceProgress + 1

\* lines 711-719: the interval callback, up to its await.  Time has advanced by
\* one interval; the promises that were due have settled before.
IntervalCheck(duration) ==
  /\ wdNow < MaxTicks
  /\ \A c \in inFlight : ~Due(c)
  /\ wdNow' = wdNow + 1
  /\ IF Armed /\ Expired(wdNow')
     THEN /\ lastFire' = <<wdNow'>>
          /\ inFlight' = inFlight \cup {[started |-> wdNow', duration |-> duration]}
          /\ onTimeout
     ELSE /\ duration = 0
          /\ UNCHANGED <<lastFire, inFlight, watchdogTimeouts, fatalWatchdog, sinceProgress>>
  /\ UNCHANGED <<watchers, lastBeat>>
  /\ UNCHANGED notWdVars

\* lines 719-729: the promise of onTimeout settles (resolved or rejected)
OnTimeoutSettles(c) ==
  /\ c \in inFlight
  /\ Due(c)
  /\ inFlight' = inFlight \ {c}
  /\ watchers' = Snoozed
  /\ UNCHANGED <<wdNow, lastFire, lastBeat, watchdogTimeouts, fatalWatchdog, sinceProgress>>
  /\ UNCHANGED notWdVars

\* lines 735-740, called on every state change of the download loop
\* (downloader.ts line 137)
heartbeat ==
  /\ Armed
  /\ watchers[RunId].lastHeartbeat # wdNow \/ lastBeat # wdNow \/ sinceProgress # 0
  /\ watchers' = [watchers EXCEPT ![RunId].lastHeartbeat = wdNow]
  /\ lastBeat' = wdNow
  /\ sinceProgress' = 0
  /\ UNCHANGED <<wdNow, inFlight, lastFire, watchdogTimeouts, fatalWatchdog>>
  /\ UNCHANGED notWdVars

\* lines 742-748
stopWatchdog ==
  /\ Armed
  /\ watchers' = MapDelete(watchers, RunId)
  /\ UNCHANGED <<wdNow, inFlight, lastFire, lastBeat, watchdogTimeouts, fatalWatchdog,
                 sinceProgress>>
  /\ UNCHANGED notWdVars

\* lines 702-733: stopWatchdog, then a new entry and a new interval, armed by
\* a new run (downloader.ts lines 85-86, 126)
startWatchdog(timeoutMs) ==
  /\ ~Armed
  /\ watchers' = MapSet(watchers, RunId, [lastHeartbeat |-> wdNow, timeoutMs |-> timeoutMs])
  /\ lastFire' = NoFire
  /\ lastBeat' = wdNow
  /\ watchdogTimeouts' = 0
  /\ fatalWatchdog' = FALSE
  /\ sinceProgress' = 0
  /\ UNCHANGED <<wdNow, inFlight>>
  /\ UNCHANGED notWdVars

NextWatchdog ==
  \/ \E duration \in 0..MaxDuration : IntervalCheck(duration)
  \/ \E c \in inFlight : OnTimeoutSettles(c)
  \/ heartbeat
  \/ stopWatchdog
  \/ \E timeoutMs \in 1..MaxTimeout : startWatchdog(timeoutMs)

(***************************************************************************)
(* The download budget.  The scheduler starts download steps of different  *)
(* sessions together; each run closure reads remainingDownload before its  *)
(* await and writes it after.  sessionDownloadLimits is empty (no prompts  *)
(* step ran).                                                              *)
(***************************************************************************)
DEFAULT_MAX_VIDEOS == 1000
Min(a, b) == IF a < b THEN a ELSE b

\* part_004 lines 491-493 (the limit is configured and positive)
InitBudget ==
  /\ scenarioDownloadLimit \in 1..MaxLimit
  /\ remainingDownload = scenarioDownloadLimit
  /\ maxVideos \in 0..MaxVideos
  /\ existingFiles \in 0..MaxExisting
  /\ downloadSteps = [i \in 1..NumDownloadSteps |->
                        [pc |-> "pending", maxForThis |-> 0, downloadedCount |-> 0]]

IdleBudget ==
  /\ scenarioDownloadLimit = 0
  /\ remainingDownload = 0
  /\ maxVideos = 0
  /\ existingFiles = 0
  /\ downloadSteps = << >>

\* part_004 lines 210-223, runDownloadForSession: the limit handed to runDownloads
effectiveLimit(maxOverride) ==
  IF maxOverride > 0 THEN maxOverride
  ELSE IF maxVideos > 0 THEN maxVideos
  ELSE 0

\* downloader.ts lines 96-97: explicitCap, targetTotal
targetTotal(limit) ==
  IF limit > 0 THEN limit
  ELSE IF maxVideos # 0 THEN maxVideos ELSE DEFAULT_MAX_VIDEOS

\* downloader.ts lines 101-104, 131-141: the files one runDownloads may save
MayDownload(maxOverride) ==
  LET target == targetTotal(effectiveLimit(maxOverride))
  IN IF existingFiles >= target THEN 0
     ELSE Min(target - existingFiles, FeedFiles)

\* part_004 lines 558-560: the run closure up to its await
DownloadStepRun(i) ==
  /\ downloadSteps[i].pc = "pending"
  /\ downloadSteps' = [downloadSteps EXCEPT ![i].pc = "running",
                                              ![i].maxForThis = Max(0, remainingDownload)]
  /\ UNCHANGED <<scenarioDownloadLimit, remainingDownload, maxVideos, existingFiles>>
  /\ UNCHANGED notBgVars

\* part_004 lines 560-564: runDownloadForSession has resolved with
\* downloadedCount
DownloadStepDone(i, downloaded) ==
  /\ downloadSteps[i].pc = "running"
  /\ downloaded <= MayDownload(downloadSteps[i].maxForThis)
  /\ downloadSteps' = [downloadSteps EXCEPT ![i].pc = "done",
                                              ![i].downloadedCount = downloaded]
  /\ remainingDownload' = Max(0, remainingDownload - downloaded)
  /\ UNCHANGED <<scenarioDownloadLimit, maxVideos, existingFiles>>
  /\ UNCHANGED notBgVars

NextBudget ==
  \/ \E i \in 1..NumDownloadSteps : DownloadStepRun(i)
  \/ \E i \in 1..NumDownloadSteps : \E downloaded \in 0..FeedFiles :
       DownloadStepDone(i, downloaded)

(***************************************************************************)
(* Pipeline runs.  The IPC handler pipeline:run calls runPipeline on every *)
(* request, also while an earlier call is in progress; pipeline:cancel     *)
(* calls cancelPipeline.  Of runWorkflow the run keeps what its ticks do   *)
(* with shouldCancel: a tick that finds it true skips every pending step   *)
(* with "Cancelled", another tick starts a pending step.                   *)
(***************************************************************************)
InitPipeline ==
  /\ pipelineCancelled = FALSE
  /\ runs = << >>

IdlePipeline ==
  /\ pipelineCancelled = FALSE
  /\ runs = << >>

InProgress(r) == runs[r].pc # "returned"

\* lines 615-640: runPipeline up to its first await
runPipeline(numSteps) ==
  /\ Len(runs) < MaxRuns
  /\ pipelineCancelled' = FALSE
  /\ runs' = Append(runs, [pc |-> "prelude", pending |-> numSteps, hadError |-> FALSE,
                            skipped |-> 0, cancelRequested |-> FALSE,
                            startedAfterCancel |-> FALSE, finalStatus |-> "none"])
  /\ UNCHANGED notPlVars

\* lines 621-646: the sessions and the configuration are read, runWorkflow is called
PipelinePrelude(r) ==
  /\ runs[r].pc = "prelude"
  /\ runs' = [runs EXCEPT ![r].pc = "workflow"]
  /\ UNCHANGED pipelineCancelled
  /\ UNCHANGED notPlVars

\* lines 659-660
finalStatusOf(hadError) == IF pipelineCancelled \/ hadError THEN "error" ELSE "success"

\* part_009 lines 250-256 and 293-327: a tick of runWorkflow with
\* shouldCancel: () => cancelled (line 656); a started step ends in success
\* or error
WorkflowTick(r, stepFails) ==
  /\ runs[r].pc = "workflow"
  /\ runs[r].pending > 0
  /\ IF pipelineCancelled
     THEN /\ ~stepFails
          /\ runs' = [runs EXCEPT ![r].skipped = runs[r].pending, ![r].pending = 0]
     ELSE runs' = [runs EXCEPT ![r].pending = @ - 1,
                               ![r].hadError = @ \/ stepFails,
                               ![r].startedAfterCancel = @ \/ runs[r].cancelRequested]
  /\ UNCHANGED pipelineCancelled
  /\ UNCHANGED notPlVars

\* lines 659-676: runWorkflow has returned; the final workflow event
PipelineFinish(r) ==
  /\ runs[r].pc = "workflow"
  /\ runs[r].pending = 0
  /\ runs' = [runs EXCEPT ![r].pc = "returned",
                           ![r].finalStatus = finalStatusOf(runs[r].hadError)]
  /\ UNCHANGED pipelineCancelled
  /\ UNCHANGED notPlVars

\* lines 684-687
cancelPipeline ==
  /\ \E r \in DOMAIN runs : InProgress(r) /\ ~runs[r].cancelRequested
  /\ pipelineCancelled' = TRUE
  /\ runs' = [r \in DOMAIN runs |->
                IF InProgress(r) THEN [runs[r] EXCEPT !.cancelRequested = TRUE] ELSE runs[r]]
  /\ UNCHANGED notPlVars

NextPipeline ==
  \/ \E numSteps \in 1..MaxPipelineSteps : runPipeline(numSteps)
  \/ \E r \in DOMAIN runs : PipelinePrelude(r)
  \/ \E r \in DOMAIN runs : \E stepFails \in BOOLEAN : WorkflowTick(r, stepFails)
  \/ \E r \in DOMAIN runs : PipelineFinish(r)
  \/ cancelPipeline

(***************************************************************************)
(* Specifications.                                                         *)
(***************************************************************************)
IdleWorkflow ==
  /\ steps = << >>
  /\ cancelled = FALSE
  /\ pc = "idle"
  /\ exitBy = "none"
  /\ statusById = << >>
  /\ results = EmptyBag
  /\ pendingSteps = {}
  /\ runningPromises = {}
  /\ settledPromises = {}
  /\ awaited = {}
  /\ outcome = << >>
  /\ runCount = << >>

NextWorkflow ==
  \/ Begin
  \/ LoopExit
  \/ CancelTick
  \/ ScheduleTick
  \/ \E i \in DOMAIN steps : Settle(i)
  \/ ResumeAll
  \/ RequestCancel

(***************************************************************************)
(* The seen-names set of runDownloadLoop and the download directory.       *)
(* File names are numbers; fs.readdir lists them in ascending order.  The  *)
(* browser writes a download under a temporary name and renames it when    *)
(* it is complete, at its own pace.                                        *)
(***************************************************************************)
\* fs.readdir(downloadDir): the names in listing order
RECURSIVE readdir(_)
readdir(dir) ==
  IF dir = {} THEN << >>
  ELSE LET first == CHOOSE n \in dir : \A m \in dir : n <= m
       IN <<first>> \o readdir(dir \ {first})

\* array.slice(-n)
LastOf(names, n) == SubSeq(names, Max(1, Len(names) - n + 1), Len(names))

\* seenNames.add(name)
SetAdd(names, n) == IF \E i \in DOMAIN names : names[i] = n THEN names ELSE Append(names, n)

NamesOf(names) == {names[i] : i \in DOMAIN names}

\* a name no entry has carried so far
FreshName == MaxInitialFiles + 1
             + Cardinality({d \in DOMAIN browserDownloads : browserDownloads[d].state # "requested"})
             + Cardinality({d \in DOMAIN browserDownloads : browserDownloads[d].state = "saved"})

\* lines 294-296: the directory is read once, seenNames holds its last MAX_SEEN names
InitSeen ==
  /\ downloadDir \in SUBSET (1..MaxInitialFiles)
  /\ maxSeenFiles \in 1..MaxSeen
  /\ seenNames = LastOf(readdir(downloadDir), maxSeenFiles)
  /\ beforeStartNames = {}
  /\ dirAtClick = {}
  /\ startedFile = << >>
  /\ browserDownloads = << >>
  /\ snPc = "loopTop"
  /\ clicks = 0

IdleSeen ==
  /\ downloadDir = {}
  /\ maxSeenFiles = 1
  /\ seenNames = << >>
  /\ beforeStartNames = {}
  /\ dirAtClick = {}
  /\ startedFile = << >>
  /\ browserDownloads = << >>
  /\ snPc = "idle"
  /\ clicks = 0

\* lines 306-309: the oldest names are dropped once the set is larger than MAX_SEEN
Evicted(names) ==
  IF Len(names) > maxSeenFiles THEN LastOf(names, maxSeenFiles) ELSE names

\* lines 302-314: the top of an iteration, up to the card-ready wait
SeenLoopTop ==
  /\ snPc = "loopTop"
  /\ clicks < MaxClicks
  /\ seenNames' = Evicted(seenNames)
  /\ startedFile' = << >>
  /\ snPc' = "clickDownload"
  /\ UNCHANGED <<downloadDir, beforeStartNames, dirAtClick, browserDownloads, maxSeenFiles,
                 clicks>>
  /\ UNCHANGED notSnVars

\* lines 318-322: beforeStartNames is copied from seenNames, then clickDownload
\* asks the browser for the download
SeenClickDownload ==
  /\ snPc = "clickDownload"
  /\ beforeStartNames' = NamesOf(seenNames)
  /\ dirAtClick' = downloadDir
  /\ clicks' = clicks + 1
  /\ browserDownloads' = Append(browserDownloads,
                                [state |-> "requested", name |-> 0, click |-> clicks + 1])
  /\ snPc' = "waitDownloadStart"
  /\ UNCHANGED <<downloadDir, seenNames, startedFile, maxSeenFiles>>
  /\ UNCHANGED notSnVars

\* lines 19-39, 326-327: waitForDownloadStart returns the first listed entry that
\* is not in beforeStartNames, or rejects at its timeout
SeenWaitDownloadStart ==
  /\ snPc = "waitDownloadStart"
  /\ LET entries == readdir(downloadDir)
         unseen  == {i \in DOMAIN entries : entries[i] \notin beforeStartNames}
     IN IF unseen # {}
        THEN LET candidate == entries[CHOOSE i \in unseen : \A j \in unseen : i <= j]
             IN /\ startedFile' = <<candidate>>
                /\ seenNames' = SetAdd(seenNames, candidate)
                /\ snPc' = "waitFileSaved"
        ELSE /\ snPc' = "loopTop"
             /\ UNCHANGED <<startedFile, seenNames>>
  /\ UNCHANGED <<downloadDir, beforeStartNames, dirAtClick, browserDownloads, maxSeenFiles,
                 clicks>>
  /\ UNCHANGED notSnVars

\* lines 41-85, 330-332: waitUntilFileSaved returns a complete file written since
\* the click, or rejects at its timeout
SeenWaitFileSaved ==
  /\ snPc = "waitFileSaved"
  /\ LET complete == {d \in DOMAIN browserDownloads :
                        /\ browserDownloads[d].state = "saved"
                        /\ browserDownloads[d].click = clicks}
     IN IF complete # {}
        THEN seenNames' = SetAdd(seenNames, browserDownloads[CHOOSE d \in complete : TRUE].name)
        ELSE UNCHANGED seenNames
  /\ snPc' = "loopTop"
  /\ UNCHANGED <<downloadDir, beforeStartNames, dirAtClick, startedFile, browserDownloads,
                 maxSeenFiles, clicks>>
  /\ UNCHANGED notSnVars

\* the browser goes on with a download: the temporary file appears, or it is
\* renamed to its final name; a file keeps the time of the click it is written in
BrowserWrites(d) ==
  /\ browserDownloads[d].state \in {"requested", "partial"}
  /\ IF browserDownloads[d].state = "requested"
     THEN /\ downloadDir' = downloadDir \cup {FreshName}
          /\ browserDownloads' = [browserDownloads EXCEPT ![d].state = "partial",
                                                          ![d].name = FreshName]
     ELSE /\ downloadDir' = (downloadDir \ {browserDownloads[d].name}) \cup {FreshName}
          /\ browserDownloads' = [browserDownloads EXCEPT ![d].state = "saved",
                                                          ![d].name = FreshName,
                                                          ![d].click = clicks]
  /\ UNCHANGED <<seenNames, beforeStartNames, dirAtClick, startedFile, snPc, maxSeenFiles,
                 clicks>>
  /\ UNCHANGED notSnVars

NextSeen ==
  \/ SeenLoopTop
  \/ SeenClickDownload
  \/ SeenWaitDownloadStart
  \/ SeenWaitFileSaved
  \/ \E d \in DOMAIN browserDownloads : BrowserWrites(d)

(***************************************************************************)
(* pipeline:skip.  A running prompt or download step is an operation that  *)
(* holds the signal of its task; pipeline:skip calls cancelAllTasks, which *)
(* aborts the signal.  The step executor (runPromptsForSession,            *)
(* runDownloadForSession) turns the operation's result into the promise    *)
(* runWorkflow awaits: resolved is status success, rejected status error.  *)
(***************************************************************************)
StepKinds == {"runDownloads", "runPromptsAdapter", "runGenericPromptLoop"}

NoResult == << >>

InitSkip ==
  \E kinds \in [1..NumSkipSteps -> StepKinds] :
    skipSteps = [i \in 1..NumSkipSteps |->
                   [kind |-> kinds[i], pc |-> "started", aborted |-> FALSE, failed |-> FALSE,
                    left |-> MaxPrompts, result |-> NoResult, status |-> "running"]]

IdleSkip == skipSteps = << >>

\* part_004 lines 224-230 and 272-277: the step executor; runDownloadForSession
\* resolves on the error 'Cancelled', runPromptsForSession rejects on every
\* result that is not ok
StepStatus(kind, result) ==
  IF result.ok THEN "success"
  ELSE IF kind = "runDownloads" /\ result.message = "Cancelled" THEN "success"
  ELSE "error"

\* the operation returns result and the executor settles the step
Settled(step, result, genuine) ==
  [step EXCEPT !.pc = "finished", !.result = result, !.failed = genuine,
               !.status = StepStatus(step.kind, result)]

\* genericSteps.ts lines 348-363, downloader.ts lines 88-109, part_004 lines
\* 53-66: from startTask to the loop.  runPromptsAdapter and runDownloads test
\* signal.aborted once and throw 'Cancelled', which their catch block returns
\* as { ok: false }; runGenericPromptLoop has no such test.  Launching the
\* browser may fail.
EnterLoop(i, launched) ==
  /\ skipSteps[i].pc = "started"
  /\ LET step == skipSteps[i]
     IN skipSteps' = [skipSteps EXCEPT ![i] =
          IF ~launched
          THEN Settled(step, [ok |-> FALSE, message |-> "launch failed"], TRUE)
          ELSE IF step.aborted /\ step.kind # "runGenericPromptLoop"
          THEN Settled(step, [ok |-> FALSE, message |-> "Cancelled"], FALSE)
          ELSE [step EXCEPT !.pc = "loop"]]
  /\ UNCHANGED notSkVars

\* genericSteps.ts lines 380-514, part_004 lines 70-108, downloader.ts lines
\* 131-177 with downloadFlow.ts line 303: the top of an iteration.  An aborted
\* signal breaks the loop; the prompt loops then return ok: true, runDownloads
\* returns ok: false with error 'Cancelled'.
LoopTurn(i, turn) ==
  /\ skipSteps[i].pc = "loop"
  /\ LET step == skipSteps[i]
     IN skipSteps' = [skipSteps EXCEPT ![i] =
          IF step.aborted
          THEN IF step.kind = "runDownloads"
               THEN Settled(step, [ok |-> FALSE, message |-> "Cancelled"], FALSE)
               ELSE Settled(step, [ok |-> TRUE, message |-> "Cancelled"], FALSE)
          ELSE IF turn = "throws"
          THEN Settled(step, [ok |-> FALSE, message |-> "iteration failed"], TRUE)
          ELSE IF step.left = 0
          THEN Settled(step, [ok |-> TRUE, message |-> "finished"], FALSE)
          ELSE [step EXCEPT !.left = @ - 1]]
  /\ UNCHANGED notSkVars

\* part_004 lines 925-930 with part_006 lines 40-46: pipeline:skip aborts the
\* task of every operation that has not run its finally block
pipelineSkip ==
  /\ \E i \in DOMAIN skipSteps : skipSteps[i].pc # "finished" /\ ~skipSteps[i].aborted
  /\ skipSteps' = [i \in DOMAIN skipSteps |->
                     IF skipSteps[i].pc # "finished"
                     THEN [skipSteps[i] EXCEPT !.aborted = TRUE]
                     ELSE skipSteps[i]]
  /\ UNCHANGED notSkVars

NextSkip ==
  \/ \E i \in DOMAIN skipSteps, launched \in BOOLEAN : EnterLoop(i, launched)
  \/ \E i \in DOMAIN skipSteps, turn \in {"goes on", "throws"} : LoopTurn(i, turn)
  \/ pipelineSkip

(***************************************************************************)
(* ChromePool: ensureChrome, stopChrome, tryLaunchFromQueue and the health *)
(* loop.  launchNewChrome spawns the process and then awaits its CDP       *)
(* endpoint; the instance enters this.active after that await.             *)
(***************************************************************************)
PoolSessions == {"sessA", "sessB", "sessC"}

InitPool ==
  /\ maxConcurrent \in 1..MaxConcurrent
  /\ poolActive = << >>
  /\ poolQueue = << >>
  /\ launching = {}
  /\ children = {}
  /\ spawnCount = 0

IdlePool ==
  /\ maxConcurrent = 1
  /\ poolActive = << >>
  /\ poolQueue = << >>
  /\ launching = {}
  /\ children = {}
  /\ spawnCount = 0

PoolState ==
  [active |-> poolActive, queue |-> poolQueue, launching |-> launching,
   children |-> children, spawnCount |-> spawnCount]

\* lines 893-908: launchNewChrome up to its await: the process is spawned
Spawned(p, sessionId, queued) ==
  [p EXCEPT !.spawnCount = @ + 1,
            !.children = @ \cup {p.spawnCount + 1},
            !.launching = @ \cup {[sessionId |-> sessionId, child |-> p.spawnCount + 1,
                                   queued |-> queued]}]

\* lines 956-961: tryLaunchFromQueue up to its await
tryLaunchFromQueue(p) ==
  IF Cardinality(DOMAIN p.active) >= maxConcurrent THEN p
  ELSE IF p.queue = << >> THEN p
  ELSE Spawned([p EXCEPT !.queue = Tail(@)], Head(p.queue), TRUE)

\* lines 972-974 and 997-999: the guarded call of tryLaunchFromQueue
tryLaunchIfFree(p) ==
  IF Cardinality(DOMAIN p.active) < maxConcurrent /\ p.queue # << >>
  THEN tryLaunchFromQueue(p) ELSE p

Becomes(p) ==
  /\ poolActive' = p.active
  /\ poolQueue' = p.queue
  /\ launching' = p.launching
  /\ children' = p.children
  /\ spawnCount' = p.spawnCount
  /\ UNCHANGED maxConcurrent
  /\ UNCHANGED notCpVars

\* lines 848-866: ensureChrome for a session without an instance: launch if a
\* slot is free, else queue
ensureChrome(sessionId) ==
  /\ spawnCount + Len(poolQueue) < MaxPoolCalls
  /\ sessionId \notin DOMAIN poolActive
  /\ IF Cardinality(DOMAIN poolActive) < maxConcurrent
     THEN Becomes(Spawned(PoolState, sessionId, FALSE))
     ELSE Becomes([PoolState EXCEPT !.queue = Append(@, sessionId)])

\* lines 856-859, 910-924 and 963-974: the CDP endpoint answers and the instance
\* is stored, or the wait fails and the process is killed; a queued launch goes
\* on with the queue
LaunchSettles(l, ok) ==
  /\ l \in launching
  /\ ok => l.child \in children
  /\ LET rest   == [PoolState EXCEPT !.launching = @ \ {l}]
         stored == [rest EXCEPT !.active = MapSet(@, l.sessionId, l.child)]
         killed == [rest EXCEPT !.children = @ \ {l.child}]
     IN IF ~l.queued
        THEN Becomes(IF ok THEN stored ELSE killed)
        ELSE Becomes(IF ok THEN tryLaunchIfFree(stored)
                     ELSE tryLaunchIfFree(tryLaunchFromQueue(killed)))

\* lines 927-946: stopChrome
stopChrome(sessionId) ==
  /\ sessionId \in DOMAIN poolActive
  /\ Becomes(tryLaunchFromQueue(
       [PoolState EXCEPT !.children = @ \ {poolActive[sessionId]},
                         !.active = MapDelete(@, sessionId)]))

\* lines 889-892 of ensureChrome's waiter: the wait for a slot times out
QueueTimeout(k) ==
  /\ k \in DOMAIN poolQueue
  /\ Becomes([PoolState EXCEPT !.queue = SubSeq(@, 1, k - 1) \o SubSeq(@, k + 1, Len(@))])

\* a Chrome process exits by itself
ChildExits(c) ==
  /\ c \in children
  /\ \E sid \in DOMAIN poolActive : poolActive[sid] = c
  /\ Becomes([PoolState EXCEPT !.children = @ \ {c}])

\* lines 978-1002: a pass of the health loop: instances that do not answer are
\* dropped, then the queue is served
HealthCheck ==
  /\ DOMAIN poolActive # {} \/ poolQueue # << >>
  /\ LET alive == {sid \in DOMAIN poolActive : poolActive[sid] \in children}
     IN Becomes(tryLaunchIfFree(
          [PoolState EXCEPT !.active = [sid \in alive |-> poolActive[sid]]]))

NextPool ==
  \/ \E sid \in PoolSessions : ensureChrome(sid)
  \/ \E l \in launching, ok \in BOOLEAN : LaunchSettles(l, ok)
  \/ \E sid \in PoolSessions : stopChrome(sid)
  \/ \E k \in DOMAIN poolQueue : QueueTimeout(k)
  \/ \E c \in children : ChildExits(c)
  \/ HealthCheck

(***************************************************************************)
(* Seeding of a clone directory (electron/chrome/profiles).  Of the        *)
(* allow-list the model keeps 'Local State', 'Cookies' and 'Preferences';  *)
(* the other critical files are treated like 'Preferences'.                *)
(***************************************************************************)
SeedFiles == {"Local State", "Cookies", "Preferences"}

InitClone ==
  /\ sourceFiles \in SUBSET SeedFiles
  /\ cloneFiles = << >>
  /\ defaultDirExists = FALSE
  /\ seedCount = 0

IdleClone ==
  /\ sourceFiles = {}
  /\ cloneFiles = << >>
  /\ defaultDirExists = FALSE
  /\ seedCount = 0

\* profiles.ts lines 186-207: verifyProfileClone(...).ok
verifyProfileClone(files, hasDefaultDir) ==
  /\ "Local State" \in DOMAIN files
  /\ hasDefaultDir
  /\ "Cookies" \in DOMAIN files

\* profiles.ts lines 89-136: every allow-listed file the source holds is copied
\* over the clone's; safeCopyFile gives up silently, copied are the files
\* whose copy succeeded
ensureCloneSeededFromProfile(files, copied) ==
  [f \in DOMAIN files \cup copied |-> IF f \in copied THEN "source" ELSE files[f]]

\* ffmpegBlur.ts lines 744-752: the clone is verified and, if it does not pass,
\* seeded
PrepareLaunch(copied) ==
  /\ copied \subseteq sourceFiles
  /\ IF verifyProfileClone(cloneFiles, defaultDirExists)
     THEN UNCHANGED <<cloneFiles, defaultDirExists, seedCount>>
     ELSE /\ seedCount < MaxSeedings
          /\ cloneFiles' = ensureCloneSeededFromProfile(cloneFiles, copied)
          /\ defaultDirExists' = TRUE
          /\ seedCount' = seedCount + 1
  /\ UNCHANGED sourceFiles
  /\ UNCHANGED notClVars

\* the Chrome launched on the clone writes one of its files
ChromeWrites(f) ==
  /\ defaultDirExists
  /\ IF f \in DOMAIN cloneFiles THEN cloneFiles[f] # "clone" ELSE TRUE
  /\ cloneFiles' = MapSet(cloneFiles, f, "clone")
  /\ UNCHANGED <<sourceFiles, defaultDirExists, seedCount>>
  /\ UNCHANGED notClVars

NextClone ==
  \/ \E copied \in SUBSET SeedFiles : PrepareLaunch(copied)
  \/ \E f \in SeedFiles : ChromeWrites(f)

(***************************************************************************)
(* runWorkflow on reorderings of one step list.  Every body has a fixed    *)
(* outcome and settles before the loop's next tick (the bodies of a dry    *)
(* run are resolved promises), nothing cancels, and no body throws         *)
(* synchronously: what is left to vary is the listing order alone.         *)
(***************************************************************************)
InitPermutations ==
  /\ IsGenGraph(pmSteps)
  /\ pmOutcome \in [{pmSteps[i].id : i \in DOMAIN pmSteps} -> {"ok", "reject"}]
  /\ pmRuns = << >>

IdlePermutations ==
  /\ pmSteps = << >>
  /\ pmOutcome = << >>
  /\ pmRuns = << >>

\* the listings of n steps
Orders(n) == {f \in [1..n -> 1..n] : \A i, j \in 1..n : f[i] = f[j] => i = j}

\* the step list in the listing order
Listed(order) == [k \in DOMAIN order |-> pmSteps[order[k]]]

\* lines 234-246: disabled steps are skipped at once, the others are pending
QuietBegin(lst) ==
  [statusById   |-> [id \in {lst[i].id : i \in DOMAIN lst} |->
                       IF lst[CHOOSE i \in DOMAIN lst : lst[i].id = id].enabled
                       THEN "pending" ELSE "skipped"],
   pendingSteps |-> {i \in DOMAIN lst : lst[i].enabled},
   ready        |-> {}]

\* lines 267-290: one pass over the pending steps, in list order
RECURSIVE QuietPass(_, _, _)
QuietPass(lst, i, s) ==
  IF i > Len(lst) THEN s
  ELSE IF i \notin s.pendingSteps THEN QuietPass(lst, i + 1, s)
  ELSE IF anyDepFailed(s.statusById, lst[i])
       THEN QuietPass(lst, i + 1,
              [s EXCEPT !.statusById[lst[i].id] = "skipped",
                        !.pendingSteps = @ \ {i}])
  ELSE IF allDepsSuccess(s.statusById, lst[i])
       THEN QuietPass(lst, i + 1,
              [s EXCEPT !.ready = @ \cup {i},
                        !.pendingSteps = @ \ {i}])
  ELSE QuietPass(lst, i + 1, s)

\* lines 293-327: the ready steps run and settle, success or error by their outcome
QuietSettle(lst, out, s) ==
  [s EXCEPT !.statusById =
              [id \in DOMAIN @ |->
                 IF \E i \in s.ready : lst[i].id = id
                 THEN (IF out[id] = "ok" THEN "success" ELSE "error")
                 ELSE @[id]],
            !.ready = {}]

\* lines 329-337: nothing ready and nothing running: the pending steps end in
\* error 'Deadlock or Missing Dependency'
QuietDeadlock(lst, s) ==
  [id \in DOMAIN s.statusById |->
     IF \E i \in s.pendingSteps : lst[i].id = id THEN "error" ELSE s.statusById[id]]

\* lines 250-337: the loop, to its end
RECURSIVE QuietLoop(_, _, _)
QuietLoop(lst, out, s) ==
  IF s.pendingSteps = {} THEN s.statusById
  ELSE LET p == QuietPass(lst, 1, s)
       IN  IF p.ready = {} THEN QuietDeadlock(lst, p)
           ELSE QuietLoop(lst, out, QuietSettle(lst, out, p))

\* the statuses runWorkflow ends with on the list lst
QuietRun(lst, out) == QuietLoop(lst, out, QuietBegin(lst))

\* runWorkflow is called with the steps listed in the given order
RunListed(order) ==
  /\ Len(pmRuns) < MaxPermRuns
  /\ pmRuns' = Append(pmRuns, [order      |-> order,
                               statusById |-> QuietRun(Listed(order), pmOutcome)])
  /\ UNCHANGED <<pmSteps, pmOutcome>>
  /\ UNCHANGED notPmVars

NextPermutations == \E order \in Orders(Len(pmSteps)) : RunListed(order)

PermutationsInit ==
  /\ IdleWorkflow /\ InitRegistry /\ InitOperations /\ IdleChrome /\ InitProfiles
  /\ IdleDownload /\ IdleWatchdog /\ IdleBudget /\ IdlePipeline /\ InitPermutations /\ IdleSeen /\ IdleSkip /\ IdlePool /\ IdleClone
SpecPermutations == PermutationsInit /\ [][NextPermutations]_vars

SeenInit ==
  /\ IdleWorkflow /\ InitRegistry /\ InitOperations /\ IdleChrome /\ InitProfiles
  /\ IdleDownload /\ IdleWatchdog /\ IdleBudget /\ IdlePipeline /\ IdlePermutations
  /\ InitSeen /\ IdleSkip /\ IdlePool /\ IdleClone
SpecSeen == SeenInit /\ [][NextSeen]_vars

SkipInit ==
  /\ IdleWorkflow /\ InitRegistry /\ InitOperations /\ IdleChrome /\ InitProfiles
  /\ IdleDownload /\ IdleWatchdog /\ IdleBudget /\ IdlePipeline /\ IdlePermutations
  /\ IdleSeen /\ InitSkip /\ IdlePool /\ IdleClone
SpecSkip == SkipInit /\ [][NextSkip]_vars

PoolInit ==
  /\ IdleWorkflow /\ InitRegistry /\ InitOperations /\ IdleChrome /\ InitProfiles
  /\ IdleDownload /\ IdleWatchdog /\ IdleBudget /\ IdlePipeline /\ IdlePermutations
  /\ IdleSeen /\ IdleSkip /\ InitPool /\ IdleClone
SpecPool == PoolInit /\ [][NextPool]_vars

CloneInit ==
  /\ IdleWorkflow /\ InitRegistry /\ InitOperations /\ IdleChrome /\ InitProfiles
  /\ IdleDownload /\ IdleWatchdog /\ IdleBudget /\ IdlePipeline /\ IdlePermutations
  /\ IdleSeen /\ IdleSkip /\ IdlePool /\ InitClone
SpecClone == CloneInit /\ [][NextClone]_vars

WorkflowInit == InitWorkflow /\ InitRegistry /\ InitOperations /\ IdleChrome /\ InitProfiles /\ IdleDownload /\ IdleWatchdog /\ IdleBudget /\ IdlePipeline /\ IdlePermutations /\ IdleSeen /\ IdleSkip /\ IdlePool /\ IdleClone

SpecWorkflow == WorkflowInit /\ [][NextWorkflow]_vars

NextRegistry ==
  \/ \E sid \in SessionIds, type \in TaskTypes : startTask(sid, type)
  \/ \E sid \in SessionIds : stopTask(sid)
  \/ cancelAllTasks

RegistryInit == IdleWorkflow /\ InitRegistry /\ InitOperations /\ IdleChrome /\ InitProfiles /\ IdleDownload /\ IdleWatchdog /\ IdleBudget /\ IdlePipeline /\ IdlePermutations /\ IdleSeen /\ IdleSkip /\ IdlePool /\ IdleClone

\* operations started from the UI, with stopTask / cancelAllTasks in between
NextOperations ==
  \/ \E kind \in OperationKinds, sid \in SessionIds : OperationStart(kind, sid)
  \/ \E o \in DOMAIN operations : \E how \in {"ok", "reject", "earlyReturn"} :
       OperationPreamble(o, how)
  \/ \E o \in DOMAIN operations : \E how \in BodyExits : OperationFinish(o, how)
  \/ \E sid \in SessionIds : stopTask(sid)
  \/ cancelAllTasks

OperationsInit == IdleWorkflow /\ InitRegistry /\ InitOperations /\ IdleChrome /\ InitProfiles /\ IdleDownload /\ IdleWatchdog /\ IdleBudget /\ IdlePipeline /\ IdlePermutations /\ IdleSeen /\ IdleSkip /\ IdlePool /\ IdleClone

NextChrome ==
  \/ \E sid \in SessionIds : getOrLaunchChromeForProfile(sid)
  \/ \E c \in DOMAIN calls : Probe(c)
  \/ \E c \in DOMAIN calls, prepared \in Preparations : LaunchCheck(c, prepared)
  \/ \E c \in DOMAIN calls, ended \in PollOutcomes : PollCdp(c, ended)
  \/ \E c \in DOMAIN calls : Connect(c)
  \/ \E c \in DOMAIN calls : Attach(c)
  \/ \E p \in DOMAIN procs : ProcUp(p)
  \/ \E p \in DOMAIN procs : ProcExit(p)

ChromeInit == IdleWorkflow /\ InitRegistry /\ InitOperations /\ InitChrome /\ InitProfiles /\ IdleDownload /\ IdleWatchdog /\ IdleBudget /\ IdlePipeline /\ IdlePermutations /\ IdleSeen /\ IdleSkip /\ IdlePool /\ IdleClone

NextProfiles ==
  \E baseName \in BaseNames, sessionId \in EntityIds : resolveProfileLaunchTarget(baseName, sessionId)

ProfilesInit == IdleWorkflow /\ InitRegistry /\ InitOperations /\ IdleChrome /\ InitProfiles /\ IdleDownload /\ IdleWatchdog /\ IdleBudget /\ IdlePipeline /\ IdlePermutations /\ IdleSeen /\ IdleSkip /\ IdlePool /\ IdleClone

SpecProfiles == ProfilesInit /\ [][NextProfiles]_vars

DownloadInit ==
  /\ IdleWorkflow /\ InitRegistry /\ InitOperations /\ IdleChrome /\ InitProfiles
  /\ InitDownload /\ IdleWatchdog /\ IdleBudget /\ IdlePipeline /\ IdlePermutations /\ IdleSeen /\ IdleSkip /\ IdlePool /\ IdleClone
SpecDownload == DownloadInit /\ [][NextDownload]_vars

\* every await of the loop settles: a wait finds its condition or runs into its
\* timeout, a gesture ends; nothing obliges anyone to cancel
SpecDownloadFair == SpecDownload /\ WF_vars(LoopStep)

WatchdogInit ==
  /\ IdleWorkflow /\ InitRegistry /\ InitOperations /\ IdleChrome /\ InitProfiles
  /\ IdleDownload /\ InitWatchdog /\ IdleBudget /\ IdlePipeline /\ IdlePermutations /\ IdleSeen /\ IdleSkip /\ IdlePool /\ IdleClone
SpecWatchdog == WatchdogInit /\ [][NextWatchdog]_vars

BudgetInit ==
  /\ IdleWorkflow /\ InitRegistry /\ InitOperations /\ IdleChrome /\ InitProfiles
  /\ IdleDownload /\ IdleWatchdog /\ InitBudget /\ IdlePipeline /\ IdlePermutations /\ IdleSeen /\ IdleSkip /\ IdlePool /\ IdleClone
SpecBudget == BudgetInit /\ [][NextBudget]_vars

PipelineInit ==
  /\ IdleWorkflow /\ InitRegistry /\ InitOperations /\ IdleChrome /\ InitProfiles
  /\ IdleDownload /\ IdleWatchdog /\ IdleBudget /\ InitPipeline /\ IdlePermutations /\ IdleSeen /\ IdleSkip /\ IdlePool /\ IdleClone
SpecPipeline == PipelineInit /\ [][NextPipeline]_vars

SpecChrome == ChromeInit /\ [][NextChrome]_vars

SpecOperations == OperationsInit /\ [][NextOperations]_vars

SpecRegistry == RegistryInit /\ [][NextRegistry]_vars

\* the event loop runs every continuation that is ready, and every started body finishes
SpecWorkflowFair ==
  /\ SpecWorkflow
  /\ WF_vars(Begin) /\ WF_vars(LoopExit) /\ WF_vars(CancelTick) /\ WF_vars(ScheduleTick)
  /\ WF_vars(ResumeAll)
  /\ \A i \in 1..(NumSteps + 1) : WF_vars(i \in DOMAIN steps /\ Settle(i))

(***************************************************************************)
(* Vocabulary of the properties.                                           *)
(***************************************************************************)
Terminal == {"success", "error", "skipped"}

Returned == pc = "done"

StepOf(id) == steps[CHOOSE i \in DOMAIN steps : steps[i].id = id]

\* the records pushed for id
ResultsOf(id) == {r \in BagToSet(results) : r.stepId = id}

\* number of records pushed for id
RecordCount(id) == BagCardinality([r \in ResultsOf(id) |-> results[r]])

\* the error text of the record of id, "absent" while there is none
ErrorOf(id) ==
  IF ResultsOf(id) = {} THEN "absent" ELSE (CHOOSE r \in ResultsOf(id) : TRUE).error

RECURSIVE Reach(_, _)
Reach(S, n) ==
  IF n = 0 THEN S
  ELSE Reach(S \cup UNION {StepOf(d).dependsOn : d \in S \cap StepIds}, n - 1)

\* everything id depends on, directly or through other steps
TransDeps(id) == Reach(StepOf(id).dependsOn, Len(steps))

(***************************************************************************)
(* C1: when runWorkflow returns, results holds exactly one record per      *)
(* input step id and no other record, and every record (and every status)  *)
(* is success, error or skipped.                                           *)
(***************************************************************************)
C1_OneTerminalRecordPerStep ==
  Returned =>
    /\ \A id \in StepIds : RecordCount(id) = 1
    /\ \A r \in BagToSet(results) :
         r.stepId \in StepIds /\ r.status \in Terminal /\ r.status = statusById[r.stepId]
    /\ \A id \in StepIds : statusById[id] \in Terminal

C1_Witness ==
  /\ Returned /\ Len(steps) = 3 /\ BagCardinality(results) = 3
  /\ \E a, b, c \in StepIds :
       statusById[a] = "success" /\ statusById[b] = "error" /\ statusById[c] = "skipped"

(***************************************************************************)
(* C2 (as claimed): when the run has returned, an enabled step that lists  *)
(* in dependsOn a step that ended skipped, or ended error because its body *)
(* failed, has ended skipped.  (Dependencies that ended error as Deadlock  *)
(* are left out: the claim is stated here only where it does not meet the  *)
(* cycle rule.)                                                            *)
(***************************************************************************)
EndedFailed(id) ==
  \/ statusById[id] = "skipped"
  \/ statusById[id] = "error" /\ ErrorOf(id) = "body error"

C2_DependentOfFailedIsSkipped ==
  Returned =>
    \A i, j \in DOMAIN steps :
      ( /\ steps[j].enabled
        /\ steps[i].id \in steps[j].dependsOn
        /\ EndedFailed(steps[i].id) )
      => statusById[steps[j].id] = "skipped"

(***************************************************************************)
(* C3: a body has been called only if every id in its dependsOn has status *)
(* success; in particular no step is running (or finished) over a          *)
(* dependency that is pending, running, error, skipped or unknown.         *)
(***************************************************************************)
C3_RunOnlyAfterDepsSucceeded ==
  \A i \in DOMAIN steps :
    (runCount[steps[i].id] > 0 \/ StatusGet(statusById, steps[i].id) \in {"running", "success"})
      => \A depId \in steps[i].dependsOn : StatusGet(statusById, depId) = "success"

C3_Witness ==
  /\ pc = "waitRace"
  /\ \E i, j \in DOMAIN steps :
       /\ statusById[steps[i].id] = "running"
       /\ steps[i].dependsOn # {}
       /\ steps[j].dependsOn = {} /\ statusById[steps[j].id] = "error"

(***************************************************************************)
(* C4: a step with enabled = false is skipped from the first statement on  *)
(* and its body is never called, whatever it depends on.                   *)
(***************************************************************************)
C4_DisabledSkippedNeverRun ==
  \A i \in DOMAIN steps :
    ~steps[i].enabled =>
      /\ runCount[steps[i].id] = 0
      /\ pc # "start" => statusById[steps[i].id] = "skipped"
      /\ Returned => ErrorOf(steps[i].id) = "none"

C4_Witness ==
  /\ Returned
  /\ \E i, j \in DOMAIN steps :
       /\ ~steps[i].enabled /\ steps[j].id \in steps[i].dependsOn
       /\ statusById[steps[j].id] = "success"
       /\ statusById[steps[i].id] = "skipped"

(***************************************************************************)
(* C5 (as claimed, read in its narrowest sense): when two enabled steps    *)
(* depend on each other and on nothing else, and the run is never          *)
(* cancelled, runWorkflow returns, with both marked error / Deadlock.      *)
(***************************************************************************)
MutualPairs ==
  {p \in (DOMAIN steps) \X (DOMAIN steps) :
     /\ p[1] # p[2]
     /\ steps[p[1]].enabled /\ steps[p[2]].enabled
     /\ steps[p[1]].dependsOn = {steps[p[2]].id}
     /\ steps[p[2]].dependsOn = {steps[p[1]].id}}

DeadlockMarked(i) ==
  /\ StatusGet(statusById, steps[i].id) = "error"
  /\ ErrorOf(steps[i].id) = "Deadlock: dependencies never met"

C5_CycleReturnsWithDeadlock ==
  (MutualPairs # {} /\ []~cancelled)
    => <>(Returned /\ \A p \in MutualPairs : DeadlockMarked(p[1]) /\ DeadlockMarked(p[2]))

(***************************************************************************)
(* C6: a failing body makes its own step end error with the failure        *)
(* message and nothing else: an enabled step none of whose direct or       *)
(* transitive dependencies failed (all are listed, enabled and acyclic) is *)
(* never skipped or marked Deadlock by the scheduler; unless the run is    *)
(* cancelled it is pending, running, or ended with its own outcome, and it *)
(* is not pending when the run returns.  In the scenario open, downloadA,  *)
(* downloadB, merge with downloadB failing, the statuses end as success,   *)
(* success, error, skipped.                                                *)
(***************************************************************************)
Failed(id) == outcome[id] \in {"reject", "throw"}

\* a step that can be reached through listed, enabled steps only, and is on no cycle
Sound(id, deps) ==
  /\ id \notin deps
  /\ \A d \in deps : d \in StepIds /\ StepOf(d).enabled /\ d \notin TransDeps(d)

Independent(i) ==
  LET id == steps[i].id
      deps == TransDeps(id)
  IN /\ steps[i].enabled
     /\ Sound(id, deps)
     /\ \A d \in deps : ~Failed(d)

OwnOutcome(id) ==
  \/ StatusGet(statusById, id) = "pending" /\ outcome[id] = "none" /\ ~Returned
  \/ statusById[id] = "running" /\ outcome[id] = "promise" /\ ~Returned
  \/ statusById[id] = "success" /\ outcome[id] = "ok" /\ ErrorOf(id) = "none"
  \/ statusById[id] = "error" /\ Failed(id) /\ ErrorOf(id) = "body error"

ExampleOutcome ==
  /\ outcome["open"] = "ok" /\ outcome["downloadA"] = "ok"
  /\ Failed("downloadB")
  /\ \A id \in StepIds : StatusGet(statusById, id) \in Terminal

C7_CancellationStopsScheduling ==
  [][ /\ (exitBy = "none" /\ exitBy' = "cancel")
         => \A i \in pendingSteps :
              /\ statusById'[steps[i].id] = "skipped"
              /\ BagIn(Result(steps[i], "skipped", "Cancelled"), results')
      /\ exitBy = "cancel"
         => /\ runCount' = runCount
            /\ pendingSteps' = {}
            /\ \A id \in StepIds :
                 /\ statusById[id] = "skipped" => statusById'[id] = "skipped"
                 /\ statusById'[id] = "running" => statusById[id] = "running"
      /\ (exitBy' = "cancel" /\ pc' = "done")
         => \A id \in StepIds : statusById'[id] \in Terminal
    ]_vars

\* cancellation was observed with one step pending and another running, which is awaited
C7_Witness ==
  /\ pc = "waitAll" /\ exitBy = "cancel"
  /\ \E a, b \in StepIds :
       /\ ErrorOf(a) = "Cancelled" /\ runCount[a] = 0 /\ statusById[a] = "skipped"
       /\ runCount[b] = 1 /\ statusById[b] = "running"

(***************************************************************************)
(* C8 (as claimed): when the run has returned, an enabled step whose       *)
(* dependsOn names an identifier absent from the step list has status      *)
(* skipped.                                                                *)
(***************************************************************************)
HasUnknownDep(i) ==
  /\ steps[i].enabled
  /\ \E depId \in steps[i].dependsOn : \A j \in DOMAIN steps : steps[j].id # depId

C8_UnknownDepEndsSkipped ==
  Returned => \A i \in DOMAIN steps : HasUnknownDep(i) => statusById[steps[i].id] = "skipped"

(***************************************************************************)
(* C8 (amended): such a step is never started; when the run returns it is  *)
(* marked error with the Deadlock reason, or it is skipped, and then       *)
(* either because another of its dependencies ended error or skipped       *)
(* (Dependency failed) or because the run was cancelled (Cancelled).       *)
(***************************************************************************)
C8_UnknownDepEndsDeadlockOrSkipped ==
  \A i \in DOMAIN steps :
    HasUnknownDep(i) =>
      LET id == steps[i].id IN
      /\ runCount[id] = 0
      /\ StatusGet(statusById, id) \in {"undefined", "pending", "error", "skipped"}
      /\ Returned =>
           \/ DeadlockMarked(i) /\ exitBy = "deadlock"
           \/ /\ statusById[id] = "skipped" /\ ErrorOf(id) = "Dependency failed"
              /\ \E depId \in steps[i].dependsOn :
                   StatusGet(statusById, depId) \in {"error", "skipped"}
           \/ statusById[id] = "skipped" /\ ErrorOf(id) = "Cancelled" /\ exitBy = "cancel"

\* a step whose only dependency is unknown ends error/Deadlock after another step ran
C8_Witness ==
  /\ Returned /\ exitBy = "deadlock"
  /\ \E i, j \in DOMAIN steps :
       /\ HasUnknownDep(i) /\ Cardinality(steps[i].dependsOn) = 1 /\ DeadlockMarked(i)
       /\ statusById[steps[j].id] = "success"

(***************************************************************************)
(* C9: a status of success, error or skipped never changes again, and no   *)
(* body is called more than once.                                          *)
(***************************************************************************)
C9_TerminalIsFinalRunOnce ==
  [][ \A id \in StepIds :
        /\ StatusGet(statusById, id) \in Terminal => statusById'[id] = statusById[id]
        /\ runCount'[id] <= 1
        /\ runCount'[id] >= runCount[id]
        /\ ResultsOf(id) # {} => (ResultsOf(id))' = ResultsOf(id)
    ]_vars

C9_Witness ==
  /\ Returned /\ Len(steps) = 3
  /\ \A id \in StepIds : runCount[id] = 1
  /\ \E a, b \in StepIds : statusById[a] = "success" /\ statusById[b] = "error"

(***************************************************************************)
(* C10: the registry holds at most one task per session; of all the        *)
(* signals ever handed out for a session at most one is not aborted, and   *)
(* that one belongs to the task now registered; the signal startTask       *)
(* returns is the only live one of its session.                            *)
(***************************************************************************)
LiveSignals(sid) ==
  {c \in DOMAIN controllers : controllers[c].sessionId = sid /\ ~controllers[c].aborted}

C10_RegistryState ==
  /\ \A sid \in SessionIds : Cardinality(LiveSignals(sid)) <= 1
  /\ \A sid \in DOMAIN registry :
       /\ sid \in SessionIds
       /\ registry[sid].controller \in LiveSignals(sid)
  /\ \A sid \in SessionIds : LiveSignals(sid) # {} => sid \in DOMAIN registry

C10_OneLiveTaskPerSession ==
  /\ []C10_RegistryState
  /\ [][ Len(controllers') > Len(controllers)
           => LET c == returnedSignal' IN
              /\ c = Len(controllers')
              /\ \A d \in DOMAIN controllers' :
                   (d # c /\ controllers'[d].sessionId = controllers'[c].sessionId)
                     => controllers'[d].aborted
              /\ ~controllers'[c].aborted ]_vars

\* a session was restarted: its first signal is aborted, the second live and registered
C10_Witness ==
  \E sid \in DOMAIN registry :
    \E c1, c2 \in DOMAIN controllers :
      /\ c1 < c2
      /\ controllers[c1].sessionId = sid /\ controllers[c1].aborted
      /\ registry[sid].controller = c2 /\ returnedSignal = c2
      /\ \E other \in DOMAIN registry : other # sid

(***************************************************************************)
(* C11: when cancelAllTasks returns, the registry is empty and the signal  *)
(* of every task that was registered when it was called reports aborted,   *)
(* whatever the tasks' types and sessions.                                 *)
(***************************************************************************)
C11_CancelAllAbortsEveryTask ==
  [][ lastCall' = "cancelAllTasks"
        => /\ registry' = << >>
           /\ Len(controllers') = Len(controllers)
           /\ \A sid \in DOMAIN registry : controllers'[registry[sid].controller].aborted ]_vars

\* cancelAllTasks has just stopped two sessions at once (one stopTask stops one)
C11_Witness ==
  /\ lastCall = "cancelAllTasks"
  /\ registry = << >>
  /\ \A sid \in SessionIds : \E c \in DOMAIN controllers : controllers[c].sessionId = sid
  /\ \A c \in DOMAIN controllers : controllers[c].aborted

(***************************************************************************)
(* C12 (as claimed): whenever a task-running operation has finished, by    *)
(* success, error, early return or cancellation, the registry no longer    *)
(* holds the entry that this operation created.                            *)
(***************************************************************************)
HoldsEntryOf(o) ==
  \E sid \in DOMAIN registry : registry[sid].controller = operations[o].signal

C12_FinishedOperationLeavesNoEntry ==
  \A o \in DOMAIN operations : operations[o].pc = "finished" => ~HoldsEntryOf(o)

(***************************************************************************)
(* C13 (as claimed): a call that finds the recorded endpoint accepting a   *)
(* connection returns without spawning; a call that finds it not accepting *)
(* spawns exactly one new process.                                         *)
(***************************************************************************)
FinishedCalls == {c \in DOMAIN calls : calls[c].pc \in {"returned", "thrown"}}

C13_StaleRecordSpawnsExactlyOne ==
  \A c \in FinishedCalls :
    /\ calls[c].probed = "live" => calls[c].pc = "returned" /\ calls[c].spawned = 0
    /\ calls[c].probed = "stale" => calls[c].spawned = 1

(***************************************************************************)
(* C13 (amended): a call that finds the recorded endpoint accepting a      *)
(* connection returns without spawning.  A call that finds it not          *)
(* accepting discards the record and makes one launch attempt, never more: *)
(* it spawns exactly one process, unless the port already answers (it      *)
(* attaches and spawns none) or the preparation fails (it throws and       *)
(* spawns none).                                                           *)
(***************************************************************************)
NoSpawnExits == {"attached", "attachFailed", "prepareFailed", "launchFailed"}

C13_FinishedCallState ==
  \A c \in FinishedCalls :
    /\ calls[c].spawned \in {0, 1}
    /\ calls[c].probed = "live" => calls[c].exit = "reconnected" /\ calls[c].spawned = 0
    /\ calls[c].probed = "stale" =>
         /\ calls[c].exit # "reconnected"
         /\ calls[c].spawned = 0 <=> calls[c].exit \in NoSpawnExits

C13_StaleRecordOneLaunchAttempt ==
  /\ []C13_FinishedCallState
  /\ [][ /\ Len(procs') <= Len(procs) + 1
         /\ \A c \in DOMAIN calls :
              (calls[c].probed = "none" /\ calls'[c].probed = "stale")
                => calls[c].sessionId \notin DOMAIN activeSessions' ]_vars

\* a stale record was discarded and the call ended attached to the process
\* answering on its port, without a spawn
C13_Witness ==
  \E c \in FinishedCalls :
    calls[c].probed = "stale" /\ calls[c].exit = "attached" /\ calls[c].spawned = 0

(***************************************************************************)
(* C14 (as claimed): when getOrLaunchChromeForProfile throws, no record    *)
(* of an endpoint that this call wrote remains in the registry: a record   *)
(* exists only for an endpoint to which a connection was established.      *)
(***************************************************************************)
C14_FailedCallLeavesNoRecord ==
  [][ \A c \in DOMAIN calls :
        (calls[c].pc \in {"connect", "attach"} /\ calls'[c].pc = "thrown")
          => ~ /\ calls[c].sessionId \in DOMAIN activeSessions'
               /\ activeSessions'[calls[c].sessionId].wsEndpoint = calls[c].ws ]_vars

(***************************************************************************)
(* C15 (as claimed): no two distinct sessions are ever recorded with the   *)
(* same port or the same endpoint.                                         *)
(***************************************************************************)
C15_NoSharedPortOrEndpoint ==
  \A s1, s2 \in DOMAIN activeSessions :
    s1 # s2 => /\ activeSessions[s1].port # activeSessions[s2].port
               /\ activeSessions[s1].wsEndpoint # activeSessions[s2].wsEndpoint

(***************************************************************************)
(* C16 (as claimed, read in its narrowest sense): two different session    *)
(* identifiers made of lower-case letters only are never resolved to the   *)
(* same profile directory, whatever the profile names.                     *)
(***************************************************************************)
IsPlainId(str) == \A i \in DOMAIN str : str[i] \in {"a", "b"}

C16_DistinctIdsDistinctDirs ==
  \A i, j \in DOMAIN resolved :
    ( /\ resolved[i].sessionId # resolved[j].sessionId
      /\ IsPlainId(resolved[i].sessionId) /\ IsPlainId(resolved[j].sessionId) )
      => resolved[i].userDataDir # resolved[j].userDataDir


(***************************************************************************)
(* C17: runDownloadLoop never holds more saved files than                  *)
(* max(0, maxDownloads - skipCount), and a result whose lastState is Done  *)
(* reports completed equal to exactly that number (3 for maxDownloads 5    *)
(* and skipCount 2), whatever the number of cards of the feed.             *)
(***************************************************************************)
C17_SavesExactlyTheTarget ==
  /\ Len(savedFiles) <= Max(0, options.maxDownloads - options.skipCount)
  /\ (dlPc = "returned" /\ loopResult.lastState = "Done") =>
       /\ loopResult.completed = Max(0, options.maxDownloads - options.skipCount)
       /\ (options.maxDownloads = 5 /\ options.skipCount = 2) => loopResult.completed = 3

C17_Witness ==
  /\ dlPc = "returned"
  /\ options = [maxDownloads |-> 5, skipCount |-> 2]
  /\ loopResult.lastState = "Done"
  /\ loopResult.completed = 3
  /\ page.cards = 3
  /\ failures > 0

(***************************************************************************)
(* C18: a failing step of a download iteration never leaves the function:  *)
(* it is followed by one recovery swipe with the saved files kept; after a *)
(* successful recovery swipe the loop is at its top with files still to    *)
(* download, and after a failing one the function returns (it does not     *)
(* throw) a result that holds the files saved so far.                      *)
(***************************************************************************)
IterationPcs ==
  {"waitCardReady", "clickDownload", "waitDownloadStart", "waitFileSaved", "postDelay",
   "swipe"}

C18_IterationFailureRecovers ==
  [][ /\ dlPc \in IterationPcs => dlPc' # "thrown"
      /\ (dlPc \in IterationPcs /\ failures' > failures)
           => dlPc' = "recoverySwipe" /\ savedFiles' = savedFiles
      /\ (dlPc = "recoverySwipe" /\ dlPc' # dlPc)
           => \/ /\ dlPc' = "loopTop"
                 /\ savedFiles' = savedFiles
                 /\ Len(savedFiles') < videosToDownload'
                 /\ loopResult' = << >>
              \/ /\ dlPc' = "returned"
                 /\ loopResult'.savedFiles = savedFiles
                 /\ loopResult'.completed = Len(savedFiles) ]_vars

C18_Witness ==
  /\ dlPc = "returned"
  /\ ~dlCancelled
  /\ failures = 2
  /\ loopResult.lastState = "SwipeNext"
  /\ loopResult.completed >= 1
  /\ loopResult.completed < videosToDownload

(***************************************************************************)
(* C19 (as claimed): the bounded waits of the download loop poll the       *)
(* cancellation predicate: while isCancelled() answers true, a step taken  *)
(* inside the card-ready wait, the download-start poll, the file-saved     *)
(* poll or the post-download delay, other than the one that finds the      *)
(* awaited condition met, is the return of the function: the wait neither  *)
(* polls on nor runs into its timeout.                                     *)
(***************************************************************************)
WaitPcs == {"waitCardReady", "waitDownloadStart", "waitFileSaved", "postDelay"}

ConditionMet ==
  \/ dlPc = "waitCardReady" /\ dlPc' = "clickDownload"
  \/ dlPc = "waitDownloadStart" /\ dlPc' = "waitFileSaved"
  \/ dlPc = "waitFileSaved" /\ dlPc' = "postDelay"

C19_CancelledWaitReturnsAtOnce ==
  [][ (dlCancelled /\ dlPc \in WaitPcs /\ ~ConditionMet) => dlPc' = "returned" ]_vars

(***************************************************************************)
(* C20 (as claimed): onTimeout of an armed watchdog entry is invoked at    *)
(* most once per timeout window: an invocation that follows an earlier one *)
(* of the same entry comes at least a full timeout budget after it,        *)
(* however long the promise of onTimeout takes to settle.                  *)
(***************************************************************************)
C20_OneFirePerWindow ==
  [][ (Armed /\ Armed' /\ lastFire # NoFire /\ lastFire' # lastFire /\ lastFire' # NoFire)
        => lastFire'[1] - lastFire[1] >= watchers[RunId].timeoutMs ]_vars

(***************************************************************************)
(* C21: onTimeout is invoked only at a check where more than the timeout   *)
(* budget has passed since the latest heartbeat call (or since the arming  *)
(* when there was none); hence a run whose heartbeats are never further    *)
(* apart than the budget never has onTimeout invoked.                      *)
(***************************************************************************)
C21_NoFireWithinBudget ==
  [][ (lastFire' # lastFire /\ lastFire' # NoFire)
        => wdNow' - lastBeat > watchers[RunId].timeoutMs ]_vars

C21_Witness ==
  /\ Armed
  /\ lastFire # NoFire
  /\ lastBeat > 0
  /\ lastFire[1] - lastBeat = watchers[RunId].timeoutMs + 1

(***************************************************************************)
(* C22: firing onTimeout does not disarm the entry: the entry leaves the   *)
(* watchers only by stopWatchdog, never by a check or by the settling of   *)
(* onTimeout; and at every check that finds the budget exceeded, onTimeout *)
(* is invoked, so a run that never heartbeats has onTimeout invoked again  *)
(* after every further window.                                             *)
(***************************************************************************)
C22_FiringKeepsEntryArmed ==
  /\ [](Armed /\ Expired(wdNow) => lastFire = <<wdNow>>)
  /\ [][ (Armed /\ ~Armed') => (wdNow' = wdNow /\ inFlight' = inFlight) ]_vars

C22_Witness ==
  /\ Armed
  /\ lastBeat = 0
  /\ watchdogTimeouts = 2
  /\ lastFire = <<2 * (watchers[RunId].timeoutMs + 1)>>

(***************************************************************************)
(* C23 (as claimed): a download run becomes fatally stalled only by        *)
(* MAX_WATCHDOG_RESTARTS consecutive timeouts: when fatalWatchdog is set,  *)
(* at least that many invocations of onTimeout have come since the latest  *)
(* heartbeat.                                                              *)
(***************************************************************************)
C23_FatalOnlyAfterConsecutiveTimeouts ==
  [][ (~fatalWatchdog /\ fatalWatchdog') => sinceProgress' >= MAX_WATCHDOG_RESTARTS ]_vars

(***************************************************************************)
(* C24 (as claimed): with a global download limit N > 0, the files         *)
(* downloaded by all download steps of one pipeline run never exceed N,    *)
(* also when download steps run concurrently.                              *)
(***************************************************************************)
RECURSIVE TotalDownloaded(_)
TotalDownloaded(n) ==
  IF n = 0 THEN 0 ELSE downloadSteps[n].downloadedCount + TotalDownloaded(n - 1)

C24_TotalWithinGlobalLimit ==
  TotalDownloaded(Len(downloadSteps)) <= scenarioDownloadLimit

(***************************************************************************)
(* C25 (as claimed): a cancelled pipeline run is not reported as an error: *)
(* a run whose pending steps were skipped by the cancellation and none of  *)
(* whose steps failed does not end with a final workflow event of status   *)
(* error.                                                                  *)
(***************************************************************************)
C25_CancellationIsNotAnError ==
  \A r \in DOMAIN runs :
    (runs[r].pc = "returned" /\ runs[r].skipped > 0 /\ ~runs[r].hadError)
      => runs[r].finalStatus # "error"

(***************************************************************************)
(* C30 (as claimed): once cancelPipeline has been called during a pipeline *)
(* run, that run starts no further step, also when runPipeline is called   *)
(* again before the run has returned.                                      *)
(***************************************************************************)
C30_CancelledRunStartsNoStep ==
  \A r \in DOMAIN runs : ~runs[r].startedAfterCancel

(***************************************************************************)
(* C26 (as claimed): runWorkflow returns for every step list once the      *)
(* bodies it started have finished, whether a body resolves, rejects or    *)
(* throws when called; and when it has returned, every step whose body     *)
(* rejected or threw is marked error.                                      *)
(***************************************************************************)
C26_ReturnsAfterBodiesFinish ==
  /\ <>Returned
  /\ [](Returned => \A id \in StepIds :
                       outcome[id] \in {"reject", "throw"} => statusById[id] = "error")

(***************************************************************************)
(* C27 (as claimed): a step is marked error with the Deadlock reason only  *)
(* if it, or something it depends on directly or through other steps, lies *)
(* on a dependency cycle or is an identifier absent from the step list.    *)
(***************************************************************************)
OnCycleOrUnknown(id) ==
  \E d \in TransDeps(id) \cup {id} : d \notin StepIds \/ d \in TransDeps(d)

C27_DeadlockOnlyForCycleOrUnknown ==
  \A i \in DOMAIN steps : DeadlockMarked(i) => OnCycleOrUnknown(steps[i].id)
\* C28: with fixed step outcomes, every listing order of one step list ends
\* with the same terminal status for every step
C28_OrderNeverChangesResults ==
  \A a, b \in DOMAIN pmRuns : pmRuns[a].statusById = pmRuns[b].statusById

\* the task now registered for the session of operation o was started after o's own
Superseded(o) ==
  /\ operations[o].sessionId \in DOMAIN registry
  /\ registry[operations[o].sessionId].controller > operations[o].signal

\* C29: when an operation whose task has been superseded by a newer startTask for
\* the same session runs its final stopTask, the newer task's signal is not
\* aborted by it and the newer task's registry entry stays
C29_CleanupSparesNewerTask ==
  [][\A o \in DOMAIN operations :
       (operations[o].pc = "try" /\ operations'[o].pc = "finished" /\ Superseded(o))
       => LET sid == operations[o].sessionId
          IN /\ sid \in DOMAIN registry'
             /\ registry'[sid] = registry[sid]
             /\ controllers'[registry[sid].controller].aborted
                  = controllers[registry[sid].controller].aborted]_vars

\* calls of getOrLaunchChromeForProfile that have not returned or thrown
CallsInProgress == {c \in DOMAIN calls : calls[c].pc \notin {"returned", "thrown", "done"}}

\* C31: two calls of getOrLaunchChromeForProfile for the same session that are
\* in progress at the same time have spawned at most one browser process
\* between them
C31_OverlappingCallsSpawnOnce ==
  \A c1, c2 \in CallsInProgress :
    (c1 # c2 /\ calls[c1].sessionId = calls[c2].sessionId)
    => calls[c1].spawned + calls[c2].spawned <= 1

\* C32: runDownloadLoop always eventually returns (or throws), also when every
\* iteration fails and every recovery swipe succeeds, cancelled or not
C32_LoopEventuallyReturns == <>(dlPc \in {"returned", "thrown"})

\* C33: the entry waitForDownloadStart returns was not in the download
\* directory when the download was triggered
C33_StartedFileIsNew ==
  startedFile # << >> => startedFile[1] \notin dirAtClick

\* C34: the k-th file saved by runDownloadLoop (counting from 0) is the feed
\* item at position skipCount + k: no item is passed over or acquired twice
C34_SavedFilesFollowTheFeed ==
  \A k \in DOMAIN savedFiles : savedFiles[k] = options.skipCount + (k - 1)

\* C35: a download step that starts when the remaining global budget is zero
\* downloads zero files
C35_SpentBudgetDownloadsNothing ==
  \A i \in DOMAIN downloadSteps :
    (downloadSteps[i].pc = "done" /\ downloadSteps[i].maxForThis = 0)
    => downloadSteps[i].downloadedCount = 0

\* a step of the scheduler's own: a tick that does not observe cancellation
TickStep ==
  /\ LoopTop
  /\ ~cancelled /\ ~cancelled'
  /\ \A id \in StepIds : statusById[id] = "running" => statusById'[id] = "running"

\* the pending steps whose dependencies have all succeeded
ReadyUnstarted == {i \in pendingSteps : allDepsSuccess(statusById, steps[i])}

\* C36: a tick starts every pending step whose dependencies have all
\* succeeded, however many there are, and the scheduler never waits on
\* Promise.race while such a step is still pending
C36_EveryReadyStepStartsInItsTick ==
  /\ []((pc = "waitRace" /\ awaited \cap settledPromises = {}) => ReadyUnstarted = {})
  /\ [][TickStep => \A i \in ReadyUnstarted :
                      /\ i \notin pendingSteps'
                      /\ runCount'[steps[i].id] = runCount[steps[i].id] + 1]_vars

C36_Witness ==
  /\ pc = "waitRace"
  /\ awaited \cap settledPromises = {}
  /\ Cardinality({id \in StepIds : statusById[id] = "running"}) >= 2
  /\ pendingSteps # {}

\* the edges of the download state machine as claimed
ForwardEdges ==
  { <<"Idle", "OpenCard">>, <<"OpenCard", "WaitCardReady">>,
    <<"WaitCardReady", "StartDownload">>, <<"StartDownload", "WaitDownloadStart">>,
    <<"WaitDownloadStart", "WaitFileSaved">>, <<"WaitFileSaved", "PostDownloadDelay">>,
    <<"PostDownloadDelay", "Done">>, <<"PostDownloadDelay", "SwipeNext">>,
    <<"SwipeNext", "WaitCardReady">> }

InIterationStates ==
  {"WaitCardReady", "StartDownload", "WaitDownloadStart", "WaitFileSaved",
   "PostDownloadDelay", "SwipeNext"}

ClaimedEdges == ForwardEdges \cup {<<from, "SwipeNext">> : from \in InIterationStates}

C38_SkippedStepEndsSuccess ==
  \A i \in DOMAIN skipSteps :
    (skipSteps[i].pc = "finished" /\ skipSteps[i].aborted /\ ~skipSteps[i].failed)
    => skipSteps[i].status = "success"

\* C39: the Chrome processes a ChromePool has launched and not yet stopped
\* are never more than maxConcurrent
C39_PoolWithinMaxConcurrent == Cardinality(children) <= maxConcurrent

\* C40: right after ensureCloneSeededFromProfile has completed the clone passes
\* verifyProfileClone; a clone is seeded at most once, and a file the clone
\* has written is never replaced by the source's
C40_SeededOnceAndVerified ==
  /\ [](seedCount <= 1)
  /\ [][ /\ seedCount' > seedCount => verifyProfileClone(cloneFiles', defaultDirExists')
         /\ \A f \in DOMAIN cloneFiles :
              cloneFiles[f] = "clone" => cloneFiles'[f] = "clone" ]_vars

====
